---------------------------- MODULE Spec2Model ----------------------------
(***************************************************************************)
(* Pura: persistent collections (HAMT map/set, Vec, OrderIndex) with the   *)
(* owner-tagged transient protocol and the draft/produce engine.           *)
(*                                                                         *)
(* Encoding of JavaScript values as integers:                              *)
(*   0        undefined                                                    *)
(*   1..99    primitive values (numbers; 1 also stands for `true`)         *)
(*   -1       the DELETED sentinel symbol of the order index               *)
(*   >= 100   a reference to the object  objs[v - 100]  (typeof 'object')  *)
(* Owner tokens are naturals; 0 is the `undefined` owner.                  *)
(* Objects that the code mutates in place (HAMT branch nodes, Vec nodes,   *)
(* tail arrays, plain records) live in heaps indexed by identity.          *)
(***************************************************************************)
EXTENDS Integers, Sequences, FiniteSets, TLC

VARIABLES
  hnodes,   \* heap of HAMT branch nodes (HNode), by identity
  hm,       \* low-level HAMT session: the current HMap
  hown,     \* low-level HAMT session: the owner passed to hamtSet/hamtDelete
  hlast,    \* low-level HAMT session: the last operation and what it saw
  hprev,    \* low-level HAMT session: the operation before the last one
  hops,     \* low-level HAMT session: number of operations performed
  vs,       \* low-level Vec session: the Vec, the owner, the last operations
  vnodes,   \* heap of Vec trie nodes, by identity
  tails,    \* heap of Vec tail arrays, by identity
  objs,     \* heap of plain objects (records), by identity
  nps,      \* nested draft states created during the current produce call
  handles,  \* the values of the program: native bases and managed proxies
  draft,    \* state of the root draft of the produce call in progress
  ret,      \* outcome of the last produce call that ended
  got,      \* what the last read or pop of the recipe returned
  nextOwner,\* next unused owner token
  opsLeft,  \* number of recipe / direct operations the program may still do
  callsLeft \* number of produce calls the program may still start

hvars == <<hm, hown, hlast, hprev, hops, vs>>
pvars == <<vnodes, tails, objs, nps, handles, draft, ret, got,
           nextOwner, opsLeft, callsLeft>>
vars == <<hnodes, hvars, pvars>>

-----------------------------------------------------------------------------
(* Bounds *)

MaxHamtOps == 3
MaxOps == 2
MaxCalls == 2
MaxArrOps == 3
MaxChain == 3
MaxOrdOps == 2
MaxOrdCalls == 2

-----------------------------------------------------------------------------
(* constants.ts *)

BITS == 5
BRANCH_FACTOR == 32
MASK == 31

UNDEF == 0
DELETED == 0 - 1

\* ORDER_COMPACT_RATIO = 0.5 as a fraction
COMPACT_RATIO_NUM == 1
COMPACT_RATIO_DEN == 2

Pow2(n) == 2 ^ n

\* TRUE; evaluating it computes v, which TLC would otherwise put off until
\* the value is read (a loop of n steps then nests n evaluations)
Computed(v) == v = v

-----------------------------------------------------------------------------
(* Keys.  Key ids 1..40 stand for the JavaScript number keys               *)
(*   1, 4294967297, 156, 48, 2, 3, 4, ..., 37                              *)
(* and hashKey is the table of hashKey(key) = mix32(key | 0) for them,     *)
(* split into the high and low 16 bits of the unsigned 32-bit result:      *)
(*   hashKey(1) = hashKey(4294967297) = 0x96a0f96b  (a full collision),    *)
(*   hashKey(156) = 0x3803856b  (same two low 5-bit digits as key 1),      *)
(*   hashKey(48)  = 0x1601120b  (same lowest 5-bit digit as key 1).        *)
(* Key ids 41 and 42 stand for the number keys 2144178726 and 1586911090:  *)
(*   hashKey(2144178726) = 0xd6a0f96b  (same six low 5-bit digits as key   *)
(*                                      1, another digit at shift 30),     *)
(*   hashKey(1586911090) = 0x94a0f96b  (same five low 5-bit digits as key  *)
(*                                      1, another digit at shift 25).     *)

HashHi == <<
   38560, 38560, 14339, 5633, 46146, 60801, 22687, 22565, 31406, 8982,
   58427, 39291, 13564, 29884, 37486, 63982, 36772, 42773, 13178, 44766,
   58510, 14192, 24009, 13268, 35054, 44679, 27135, 37343, 23277, 38843,
   24184, 39391, 52940, 41967, 45744, 12256, 22963, 51642, 63468, 55022,
   54944, 38048 >>

HashLo == <<
   63851, 63851, 34155, 4619, 7099, 57043, 55112, 12737, 6862, 41769,
   27009, 31602, 36663, 11640, 22139, 26561, 47750, 30529, 46039, 42361,
   36868, 39189, 2938, 62140, 46839, 46019, 27250, 18392, 51991, 5998,
   36283, 49783, 14021, 52338, 58195, 15104, 26570, 3709, 44302, 26423,
   63851, 63851 >>

hashKey(key) == [hi |-> HashHi[key], lo |-> HashLo[key]]

\* Object.is on number keys (ids name distinct numbers, none is -0 or NaN)
keyEquals(a, b) == a = b

\* (hash >>> s) & MASK ; the shift count of >>> is taken modulo 32
HashIdx(hash, s) ==
  LET c == s % 32
  IN IF c >= 16
       THEN (hash.hi \div Pow2(c - 16)) % 32
       ELSE ((hash.lo \div Pow2(c)) + (hash.hi % 32) * Pow2(16 - c)) % 32

\* popcount(bitmap & (bit - 1)) with bit = 1 << idx ; a bitmap is the set
\* of its one-bits
PackedIdx(bitmap, idx) == Cardinality({b \in bitmap : b < idx})

-----------------------------------------------------------------------------
(* HAMT children.  Leaves and collision nodes are never edited in place    *)
(* and are held by value; branch nodes are held by reference into hnodes.  *)

NullChild == [kind |-> "null"]
HLeaf(key, hash, value) ==
  [kind |-> "leaf", key |-> key, hash |-> hash, value |-> value]
HCollision(entries) == [kind |-> "collision", entries |-> entries]
HRef(id) == [kind |-> "node", id |-> id]
HNode(owner, bitmap, children) ==
  [owner |-> owner, bitmap |-> bitmap, children |-> children]

hamtEmpty == [root |-> NullChild, size |-> 0]

InsertAt(s, i, x) == SubSeq(s, 1, i - 1) \o <<x>> \o SubSeq(s, i, Len(s))
RemoveAt(s, i) == SubSeq(s, 1, i - 1) \o SubSeq(s, i + 1, Len(s))

\* index (1-based) of the first entry of a collision bucket with this key,
\* 0 when there is none
RECURSIVE FindEntry(_, _, _)
FindEntry(entries, key, i) ==
  IF i > Len(entries) THEN 0
  ELSE IF keyEquals(entries[i].key, key) THEN i
  ELSE FindEntry(entries, key, i + 1)

\* ensureEditableHNode that edits every node in place, whoever owns it
ensureEditableHNode_Shared(heap, id, owner) ==
  [heap |-> [heap EXCEPT ![id].owner = owner], id |-> id]

ensureEditableHNode(heap, id, owner) ==
  IF owner # 0 /\ heap[id].owner = owner
    THEN [heap |-> heap, id |-> id]
    ELSE [heap |-> Append(heap, HNode(owner, heap[id].bitmap,
                                      heap[id].children)),
          id |-> Len(heap) + 1]

\* mergeLeaves that stores the two leaves in argument order
RECURSIVE mergeLeaves_Unordered(_, _, _, _, _)
mergeLeaves_Unordered(heap, leaf1, leaf2, owner, shift) ==
  LET idx1 == HashIdx(leaf1.hash, shift)
      idx2 == HashIdx(leaf2.hash, shift)
      Wrap(sub) ==
        [heap |-> Append(sub.heap, HNode(owner, {idx1}, <<sub.node>>)),
         node |-> HRef(Len(sub.heap) + 1)]
  IN IF idx1 = idx2
       THEN Wrap(mergeLeaves_Unordered(heap, leaf1, leaf2, owner,
                                       shift + BITS))
       ELSE [heap |-> Append(heap,
                             HNode(owner, {idx1, idx2}, <<leaf1, leaf2>>)),
             node |-> HRef(Len(heap) + 1)]

RECURSIVE mergeLeaves(_, _, _, _, _)
mergeLeaves(heap, leaf1, leaf2, owner, shift) ==
  LET idx1 == HashIdx(leaf1.hash, shift)
      idx2 == HashIdx(leaf2.hash, shift)
  IN IF idx1 = idx2
       THEN LET sub == mergeLeaves(heap, leaf1, leaf2, owner, shift + BITS)
            IN [heap |-> Append(sub.heap,
                                HNode(owner, {idx1}, <<sub.node>>)),
                node |-> HRef(Len(sub.heap) + 1)]
       ELSE [heap |-> Append(heap,
                             HNode(owner, {idx1, idx2},
                                   IF idx1 < idx2 THEN <<leaf1, leaf2>>
                                                  ELSE <<leaf2, leaf1>>)),
             node |-> HRef(Len(heap) + 1)]

RECURSIVE hamtInsert(_, _, _, _, _, _, _)
hamtInsert(heap, node, owner, hash, key, value, shift) ==
  IF node.kind = "null" THEN
    [heap |-> heap, node |-> HLeaf(key, hash, value),
     added |-> TRUE, changed |-> TRUE]
  ELSE IF node.kind = "leaf" THEN
    IF node.hash = hash /\ keyEquals(node.key, key) THEN
      IF node.value = value
        THEN [heap |-> heap, node |-> node,
              added |-> FALSE, changed |-> FALSE]
        ELSE [heap |-> heap, node |-> HLeaf(key, hash, value),
              added |-> FALSE, changed |-> TRUE]
    ELSE IF node.hash = hash THEN
      [heap |-> heap,
       node |-> HCollision(<<node, HLeaf(key, hash, value)>>),
       added |-> TRUE, changed |-> TRUE]
    ELSE
      LET merged == mergeLeaves(heap, node, HLeaf(key, hash, value),
                                owner, shift)
      IN [heap |-> merged.heap, node |-> merged.node,
          added |-> TRUE, changed |-> TRUE]
  ELSE IF node.kind = "collision" THEN
    LET idx == FindEntry(node.entries, key, 1)
    IN IF idx > 0 THEN
         IF node.entries[idx].value = value
           THEN [heap |-> heap, node |-> node,
                 added |-> FALSE, changed |-> FALSE]
           ELSE [heap |-> heap,
                 node |-> HCollision([node.entries EXCEPT
                                        ![idx] = HLeaf(key, hash, value)]),
                 added |-> FALSE, changed |-> TRUE]
       ELSE [heap |-> heap,
             node |-> HCollision(Append(node.entries,
                                        HLeaf(key, hash, value))),
             added |-> TRUE, changed |-> TRUE]
  ELSE
    LET n == heap[node.id]
        idx == HashIdx(hash, shift)
        hasSlot == idx \in n.bitmap
        packedIdx == PackedIdx(n.bitmap, idx) + 1
    IN IF ~hasSlot THEN
         [heap |-> Append(heap,
                          HNode(owner, n.bitmap \cup {idx},
                                InsertAt(n.children, packedIdx,
                                         HLeaf(key, hash, value)))),
          node |-> HRef(Len(heap) + 1),
          added |-> TRUE, changed |-> TRUE]
       ELSE
         LET res == hamtInsert(heap, n.children[packedIdx], owner, hash,
                               key, value, shift + BITS)
         IN IF ~res.changed /\ ~res.added THEN
              [heap |-> res.heap, node |-> node,
               added |-> FALSE, changed |-> FALSE]
            ELSE
              LET ed == ensureEditableHNode(res.heap, node.id, owner)
              IN [heap |-> [ed.heap EXCEPT
                              ![ed.id].children[packedIdx] = res.node],
                  node |-> HRef(ed.id),
                  added |-> res.added, changed |-> TRUE]

RECURSIVE hamtRemove(_, _, _, _, _, _)
hamtRemove(heap, node, owner, hash, key, shift) ==
  IF node.kind = "null" THEN
    [heap |-> heap, node |-> node, removed |-> FALSE]
  ELSE IF node.kind = "leaf" THEN
    IF node.hash = hash /\ keyEquals(node.key, key)
      THEN [heap |-> heap, node |-> NullChild, removed |-> TRUE]
      ELSE [heap |-> heap, node |-> node, removed |-> FALSE]
  ELSE IF node.kind = "collision" THEN
    LET idx == FindEntry(node.entries, key, 1)
    IN IF idx = 0 THEN [heap |-> heap, node |-> node, removed |-> FALSE]
       ELSE IF Len(node.entries) = 1
         THEN [heap |-> heap, node |-> NullChild, removed |-> TRUE]
       ELSE
         LET newEntries == RemoveAt(node.entries, idx)
         IN IF Len(newEntries) = 1
              THEN [heap |-> heap, node |-> newEntries[1],
                    removed |-> TRUE]
              ELSE [heap |-> heap, node |-> HCollision(newEntries),
                    removed |-> TRUE]
  ELSE
    LET n == heap[node.id]
        idx == HashIdx(hash, shift)
        packedIdx == PackedIdx(n.bitmap, idx) + 1
    IN IF idx \notin n.bitmap THEN
         [heap |-> heap, node |-> node, removed |-> FALSE]
       ELSE
         LET res == hamtRemove(heap, n.children[packedIdx], owner, hash,
                               key, shift + BITS)
         IN IF ~res.removed THEN
              [heap |-> res.heap, node |-> node, removed |-> FALSE]
            ELSE IF res.node.kind = "null" THEN
              LET newBitmap == n.bitmap \ {idx}
                  newChildren == RemoveAt(n.children, packedIdx)
              IN IF newBitmap = {} THEN
                   [heap |-> res.heap, node |-> NullChild,
                    removed |-> TRUE]
                 ELSE IF Len(newChildren) = 1
                         /\ newChildren[1].kind # "node" THEN
                   [heap |-> res.heap, node |-> newChildren[1],
                    removed |-> TRUE]
                 ELSE
                   [heap |-> Append(res.heap,
                                    HNode(owner, newBitmap, newChildren)),
                    node |-> HRef(Len(res.heap) + 1),
                    removed |-> TRUE]
            ELSE
              LET ed == ensureEditableHNode(res.heap, node.id, owner)
              IN [heap |-> [ed.heap EXCEPT
                              ![ed.id].children[packedIdx] = res.node],
                  node |-> HRef(ed.id), removed |-> TRUE]

\* the descent loop of hamtGet / hamtHas: the leaf holding key, or NullChild
RECURSIVE hamtFind(_, _, _, _, _)
hamtFind(heap, node, hash, key, shift) ==
  IF node.kind = "leaf" THEN
    IF node.hash = hash /\ keyEquals(node.key, key) THEN node ELSE NullChild
  ELSE IF node.kind = "collision" THEN
    LET idx == FindEntry(node.entries, key, 1)
    IN IF idx > 0 THEN node.entries[idx] ELSE NullChild
  ELSE
    LET n == heap[node.id]
        idx == HashIdx(hash, shift)
    IN IF idx \notin n.bitmap THEN NullChild
       ELSE hamtFind(heap, n.children[PackedIdx(n.bitmap, idx) + 1],
                     hash, key, shift + BITS)

hamtGet(heap, map, key) ==
  IF map.root.kind = "null" THEN UNDEF
  ELSE IF map.root.kind = "leaf" THEN
    IF keyEquals(map.root.key, key) THEN map.root.value ELSE UNDEF
  ELSE LET f == hamtFind(heap, map.root, hashKey(key), key, 0)
       IN IF f.kind = "leaf" THEN f.value ELSE UNDEF

hamtHas(heap, map, key) ==
  IF map.root.kind = "null" THEN FALSE
  ELSE IF map.root.kind = "leaf" THEN keyEquals(map.root.key, key)
  ELSE hamtFind(heap, map.root, hashKey(key), key, 0).kind = "leaf"

\* result: the heap, the returned map, and whether the returned map is the
\* argument object itself

\* hamtSet without  if (!res.changed) return map
hamtSet_Rewraps(heap, map, owner, key, value) ==
  LET res == hamtInsert(heap, map.root, owner, hashKey(key), key, value, 0)
  IN [heap |-> res.heap,
      map |-> [root |-> res.node,
               size |-> map.size + (IF res.added THEN 1 ELSE 0)],
      same |-> FALSE]

hamtSet(heap, map, owner, key, value) ==
  LET res == hamtInsert(heap, map.root, owner, hashKey(key), key, value, 0)
  IN IF ~res.changed
       THEN [heap |-> res.heap, map |-> map, same |-> TRUE]
       ELSE [heap |-> res.heap,
             map |-> [root |-> res.node,
                      size |-> map.size + (IF res.added THEN 1 ELSE 0)],
             same |-> FALSE]

\* hamtDelete that leaves size as it was
hamtDelete_KeepsSize(heap, map, owner, key) ==
  IF map.root.kind = "null" THEN [heap |-> heap, map |-> map, same |-> TRUE]
  ELSE
    LET Removed(res) ==
          IF ~res.removed
            THEN [heap |-> heap, map |-> map, same |-> TRUE]
            ELSE [heap |-> res.heap,
                  map |-> [root |-> res.node, size |-> map.size],
                  same |-> FALSE]
    IN Removed(hamtRemove(heap, map.root, owner, hashKey(key), key, 0))

hamtDelete(heap, map, owner, key) ==
  IF map.root.kind = "null" THEN [heap |-> heap, map |-> map, same |-> TRUE]
  ELSE
    LET res == hamtRemove(heap, map.root, owner, hashKey(key), key, 0)
    IN IF ~res.removed
         THEN [heap |-> res.heap, map |-> map, same |-> TRUE]
         ELSE [heap |-> res.heap,
               map |-> [root |-> res.node, size |-> map.size - 1],
               same |-> FALSE]

\* hamtIter: depth-first, children in packed order; a sequence of <<k, v>>
RECURSIVE IterChild(_, _)
RECURSIVE IterChildren(_, _, _)
IterChild(heap, node) ==
  IF node.kind = "null" THEN <<>>
  ELSE IF node.kind = "leaf" THEN << <<node.key, node.value>> >>
  ELSE IF node.kind = "collision" THEN
    [i \in 1..Len(node.entries) |->
       <<node.entries[i].key, node.entries[i].value>>]
  ELSE IterChildren(heap, heap[node.id].children, 1)
IterChildren(heap, children, i) ==
  IF i > Len(children) THEN <<>>
  ELSE IterChild(heap, children[i]) \o IterChildren(heap, children, i + 1)

hamtIter(heap, map) == IterChild(heap, map.root)

\* the loop  h = hamtSet(h, owner, k, v)  over the entries in order; Build
\* runs it over entries[lo..hi]
hamtFromMap(heap, entries, owner) ==
  LET RECURSIVE Build(_, _, _, _)
      Build(h, m, lo, hi) ==
        IF lo > hi THEN [heap |-> h, map |-> m]
        ELSE IF lo = hi THEN
          LET One(r) == [heap |-> r.heap, map |-> r.map]
          IN One(hamtSet(h, m, owner, entries[lo][1], entries[lo][2]))
        ELSE LET mid == (lo + hi) \div 2
                 Right(l) == IF Computed(l)
                               THEN Build(l.heap, l.map, mid + 1, hi)
                               ELSE l
             IN Right(Build(h, m, lo, mid))
  IN Build(heap, hamtEmpty, 1, Len(entries))

-----------------------------------------------------------------------------
(* Vec: persistent vector, a 32-way trie plus a tail buffer.               *)
(* Nodes live in a heap vn (by identity, each with an owner); tail arrays  *)
(* live in a heap tl.  vn[1] is the shared empty leaf and tl[1] an empty   *)
(* tail.  Each operation returns the heaps it leaves behind.               *)

VNode(owner, arr) == [owner |-> owner, arr |-> arr, sizes |-> <<>>]

EmptyVNodes == << VNode(0, <<>>) >>
EmptyTails == << <<>> >>

emptyVec ==
  [count |-> 0, treeCount |-> 0, shift |-> 0, root |-> 1, tail |-> 1,
   tailOwner |-> 0]

\* number of elements a regular trie of this shift holds: 32^(shift/5 + 1)
Capacity(shift) == Pow2(shift + BITS)

\* (i >>> level) & MASK
SubIdx(i, level) == (i \div Pow2(level)) % BRANCH_FACTOR

ensureEditableNode(vn, id, owner) ==
  IF owner # 0 /\ vn[id].owner = owner
    THEN [vn |-> vn, id |-> id]
    ELSE [vn |-> Append(vn, [vn[id] EXCEPT !.owner = owner]),
          id |-> Len(vn) + 1]

\* the leaf node holding index i of the trie
RECURSIVE LeafFor(_, _, _, _)
LeafFor(vn, id, level, i) ==
  IF level = 0 THEN id
  ELSE LeafFor(vn, vn[id].arr[SubIdx(i, level) + 1], level - BITS, i)

\* arr[k] of a JavaScript array: undefined outside its elements
At(arr, k) == IF k >= 0 /\ k < Len(arr) THEN arr[k + 1] ELSE UNDEF

\* a relaxed branch carries the cumulative sizes of its children
isRelaxed(node) == node.sizes # <<>>

\* the smallest slot j (from 0) with sizes[j] > i
relaxedChildIndex(sizes, i) ==
  (CHOOSE j \in 1..Len(sizes) :
     /\ sizes[j] > i
     /\ \A k \in 1..(j - 1) : sizes[k] <= i) - 1

\* the element at index i below node id: regular branches by the digits of
\* i, relaxed branches by index search with the sub-index i - sizes[j - 1]
RECURSIVE ElemAt(_, _, _, _)
ElemAt(vn, id, level, i) ==
  IF level = 0 THEN At(vn[id].arr, i % BRANCH_FACTOR)
  ELSE IF ~isRelaxed(vn[id])
    THEN ElemAt(vn, vn[id].arr[SubIdx(i, level) + 1], level - BITS, i)
  ELSE LET j == relaxedChildIndex(vn[id].sizes, i)
       IN ElemAt(vn, vn[id].arr[j + 1], level - BITS,
                 IF j = 0 THEN i ELSE i - vn[id].sizes[j])

vecGet(vn, tl, vec, i) ==
  IF i < 0 \/ i >= vec.count THEN UNDEF
  ELSE IF i >= vec.treeCount THEN At(tl[vec.tail], i - vec.treeCount)
  ELSE ElemAt(vn, vec.root, vec.shift, i)

vecToArray(vn, tl, vec) == [i \in 1..vec.count |-> vecGet(vn, tl, vec, i - 1)]

\* a chain of single-child branches of height level/5 above leaf
RECURSIVE NewPath(_, _, _, _)
NewPath(vn, owner, level, leaf) ==
  IF level = 0 THEN [vn |-> vn, id |-> leaf]
  ELSE LET sub == NewPath(vn, owner, level - BITS, leaf)
       IN [vn |-> Append(sub.vn, VNode(owner, <<sub.id>>)),
           id |-> Len(sub.vn) + 1]

\* hang leaf under node id (level >= 5) as the leaf that starts at index i
RECURSIVE PushTail(_, _, _, _, _, _)
PushTail(vn, id, level, owner, i, leaf) ==
  LET sub == SubIdx(i, level) + 1
      \* ed: the editable node; below: what goes into its slot sub
      Link(ed, below) ==
        [vn |-> [below.vn EXCEPT ![ed.id].arr =
                   IF sub <= Len(@) THEN [@ EXCEPT ![sub] = below.id]
                                    ELSE Append(@, below.id)],
         id |-> ed.id]
      Hang(ed) ==
        Link(ed,
             IF level = BITS THEN [vn |-> ed.vn, id |-> leaf]
             ELSE IF sub <= Len(ed.vn[ed.id].arr)
               THEN PushTail(ed.vn, ed.vn[ed.id].arr[sub], level - BITS,
                             owner, i, leaf)
               ELSE NewPath(ed.vn, owner, level - BITS, leaf))
  IN Hang(ensureEditableNode(vn, id, owner))

\* the full tail buffer tailArr joins the trie as its rightmost leaf; a
\* saturated trie gets a new root level
IncorporateTail(vn, vec, owner, tailArr) ==
  LET vn1 == Append(vn, VNode(owner, tailArr))
      leaf == Len(vn) + 1
      NewRoot(path) ==
        [vn |-> Append(path.vn, VNode(owner, <<vec.root, path.id>>)),
         id |-> Len(path.vn) + 1,
         shift |-> vec.shift + BITS]
      SameRoot(r) == [vn |-> r.vn, id |-> r.id, shift |-> vec.shift]
  IN IF vec.treeCount = 0 THEN
       [vn |-> vn1, id |-> leaf, shift |-> 0]
     ELSE IF vec.treeCount = Capacity(vec.shift) THEN
       NewRoot(NewPath(vn1, owner, vec.shift, leaf))
     ELSE
       SameRoot(PushTail(vn1, vec.root, vec.shift, owner, vec.treeCount,
                         leaf))

vecPush(vn, tl, vec, owner, val) ==
  LET tailArr == tl[vec.tail]
  IN IF Len(tailArr) < BRANCH_FACTOR THEN
       IF owner # 0 /\ vec.tailOwner = owner
         THEN [vn |-> vn,
               tl |-> [tl EXCEPT ![vec.tail] = Append(@, val)],
               vec |-> [vec EXCEPT !.count = @ + 1]]
         ELSE [vn |-> vn,
               tl |-> Append(tl, Append(tailArr, val)),
               vec |-> [vec EXCEPT !.count = @ + 1, !.tail = Len(tl) + 1,
                                   !.tailOwner = owner]]
     ELSE
       LET Grown(g) ==
             [vn |-> g.vn,
              tl |-> Append(tl, <<val>>),
              vec |-> [count |-> vec.count + 1,
                       treeCount |-> vec.treeCount + BRANCH_FACTOR,
                       shift |-> g.shift, root |-> g.id,
                       tail |-> Len(tl) + 1, tailOwner |-> owner]]
       IN Grown(IncorporateTail(vn, vec, owner, tailArr))

\* remove the rightmost leaf below node id (level >= 5); id 0: nothing left
RECURSIVE PopTail(_, _, _, _)
PopTail(vn, id, level, owner) ==
  LET arr == vn[id].arr
      last == Len(arr)
      Edit(ed, below) ==
        [vn |-> [ed.vn EXCEPT ![ed.id].arr =
                   IF below.id = 0 THEN SubSeq(arr, 1, last - 1)
                   ELSE [arr EXCEPT ![last] = below.id]],
         id |-> ed.id]
      Cut(below) ==
        IF below.id = 0 /\ last = 1 THEN [vn |-> below.vn, id |-> 0]
        ELSE Edit(ensureEditableNode(below.vn, id, owner), below)
  IN Cut(IF level = BITS THEN [vn |-> vn, id |-> 0]
         ELSE PopTail(vn, arr[last], level - BITS, owner))

\* the root keeps its height although levels were dropped
Contract_KeepsShift(vn, id, shift) ==
  [id |-> IF shift > 0 /\ Len(vn[id].arr) = 1 THEN vn[id].arr[1] ELSE id,
   shift |-> shift]

\* drop root levels that have a single child
RECURSIVE Contract(_, _, _)
Contract(vn, id, shift) ==
  IF shift > 0 /\ Len(vn[id].arr) = 1
    THEN Contract(vn, vn[id].arr[1], shift - BITS)
    ELSE [id |-> id, shift |-> shift]

vecPop(vn, tl, vec, owner) ==
  IF vec.count = 0 THEN [vn |-> vn, tl |-> tl, vec |-> vec, val |-> UNDEF]
  ELSE
    LET tailArr == tl[vec.tail]
        tailLen == Len(tailArr)
    IN IF tailLen > 1 \/ vec.treeCount = 0 THEN
         IF owner # 0 /\ vec.tailOwner = owner
           THEN [vn |-> vn,
                 tl |-> [tl EXCEPT ![vec.tail] = SubSeq(@, 1, tailLen - 1)],
                 vec |-> [vec EXCEPT !.count = @ - 1],
                 val |-> At(tailArr, tailLen - 1)]
           ELSE [vn |-> vn,
                 tl |-> Append(tl, SubSeq(tailArr, 1, tailLen - 1)),
                 vec |-> [vec EXCEPT !.count = @ - 1, !.tail = Len(tl) + 1,
                                     !.tailOwner = owner],
                 val |-> At(tailArr, tailLen - 1)]
       ELSE
         \* the tail empties: the rightmost leaf of the trie becomes the tail
         LET leafArr == vn[LeafFor(vn, vec.root, vec.shift,
                                   vec.treeCount - 1)].arr
             newTail == IF tailLen = 1 THEN leafArr
                        ELSE SubSeq(leafArr, 1, Len(leafArr) - 1)
             val == IF tailLen = 1 THEN At(tailArr, 0)
                    ELSE At(leafArr, Len(leafArr) - 1)
             newTree == vec.treeCount - Len(leafArr)
             Demoted(popped, top) ==
               [vn |-> popped.vn,
                tl |-> Append(tl, newTail),
                vec |-> [count |-> vec.count - 1, treeCount |-> newTree,
                         shift |-> top.shift, root |-> top.id,
                         tail |-> Len(tl) + 1, tailOwner |-> owner],
                val |-> val]
             Popped(popped) ==
               Demoted(popped,
                       IF newTree = 0 \/ popped.id = 0
                         THEN [id |-> 1, shift |-> 0]
                         ELSE Contract(popped.vn, popped.id, vec.shift))
         IN Popped(IF vec.shift = 0 THEN [vn |-> vn, id |-> 0]
                   ELSE PopTail(vn, vec.root, vec.shift, owner))

\* the root is made editable and the write is lost
DoAssoc_Lost(vn, id, level, owner, i, val) ==
  ensureEditableNode(vn, id, owner)

RECURSIVE DoAssoc(_, _, _, _, _, _)
DoAssoc(vn, id, level, owner, i, val) ==
  LET sub == SubIdx(i, level) + 1
      Link(ed, below) ==
        [vn |-> [below.vn EXCEPT ![ed.id].arr[sub] = below.id],
         id |-> ed.id]
      Edit(ed) ==
        IF level = 0
          THEN [vn |-> [ed.vn EXCEPT
                          ![ed.id].arr[(i % BRANCH_FACTOR) + 1] = val],
                id |-> ed.id]
          ELSE Link(ed, DoAssoc(ed.vn, ed.vn[ed.id].arr[sub],
                                level - BITS, owner, i, val))
  IN Edit(ensureEditableNode(vn, id, owner))

\* err: the IndexError raised for an index outside [0, count)
vecAssoc(vn, tl, vec, owner, i, val) ==
  IF i < 0 \/ i >= vec.count THEN
    [vn |-> vn, tl |-> tl, vec |-> vec, err |-> TRUE]
  ELSE IF i >= vec.treeCount THEN
    IF owner # 0 /\ vec.tailOwner = owner
      THEN [vn |-> vn,
            tl |-> [tl EXCEPT ![vec.tail][i - vec.treeCount + 1] = val],
            vec |-> vec, err |-> FALSE]
      ELSE [vn |-> vn,
            tl |-> Append(tl, [tl[vec.tail] EXCEPT
                                 ![i - vec.treeCount + 1] = val]),
            vec |-> [vec EXCEPT !.tail = Len(tl) + 1, !.tailOwner = owner],
            err |-> FALSE]
  ELSE
    LET Rooted(r) ==
          [vn |-> r.vn, tl |-> tl, vec |-> [vec EXCEPT !.root = r.id],
           err |-> FALSE]
    IN Rooted(DoAssoc(vn, vec.root, vec.shift, owner, i, val))

\* linear bulk conversion: every run of 32 elements that is followed by
\* more becomes a leaf, the rest is the tail; the nodes carry no owner that
\* a later edit could present
RECURSIVE FromChunks(_, _, _)
FromChunks(vn, vec, xs) ==
  IF Len(xs) <= BRANCH_FACTOR THEN [vn |-> vn, vec |-> vec, rest |-> xs]
  ELSE LET Rest(g) ==
             FromChunks(g.vn,
                        [vec EXCEPT !.treeCount = @ + BRANCH_FACTOR,
                                    !.shift = g.shift, !.root = g.id],
                        SubSeq(xs, BRANCH_FACTOR + 1, Len(xs)))
       IN Rest(IncorporateTail(vn, vec, 0, SubSeq(xs, 1, BRANCH_FACTOR)))

vecFromArray(vn, tl, xs) ==
  LET Tailed(t) ==
        [vn |-> t.vn,
         tl |-> Append(tl, t.rest),
         vec |-> [t.vec EXCEPT !.count = Len(xs), !.tail = Len(tl) + 1]]
  IN Tailed(FromChunks(vn, emptyVec, xs))

\* the leaves below node id, left to right, each with its element count
RECURSIVE Leaves(_, _, _)
RECURSIVE LeavesOf(_, _, _)
Leaves(vn, id, level) ==
  IF level = 0 THEN << [id |-> id, n |-> Len(vn[id].arr)] >>
  ELSE LeavesOf(vn, vn[id].arr, level - BITS)

LeavesOf(vn, ids, level) ==
  IF ids = <<>> THEN <<>>
  ELSE Leaves(vn, Head(ids), level) \o LeavesOf(vn, Tail(ids), level)

\* the leaves of the trie of vec (none when the trie is empty)
TrieLeaves(vn, vec) ==
  IF vec.treeCount = 0 THEN <<>> ELSE Leaves(vn, vec.root, vec.shift)

RECURSIVE SumN(_, _)
SumN(es, k) == IF k = 0 THEN 0 ELSE SumN(es, k - 1) + es[k].n

\* a trie over the subtrees es (each [id, n], all of height level/5): runs
\* of 32 subtrees under a branch each, level after level up to one root.  A
\* branch is regular when its children but the last are full and none is
\* relaxed; otherwise it is relaxed and carries the cumulative sizes.
RECURSIVE BuildTrie(_, _, _, _)
BuildTrie(vn, owner, es, level) ==
  IF Len(es) = 1 THEN [vn |-> vn, id |-> es[1].id, shift |-> level]
  ELSE
    LET groups == (Len(es) + BRANCH_FACTOR - 1) \div BRANCH_FACTOR
        From(g) == (g - 1) * BRANCH_FACTOR + 1
        To(g) == IF g * BRANCH_FACTOR < Len(es) THEN g * BRANCH_FACTOR
                                                ELSE Len(es)
        Kids(g) == SubSeq(es, From(g), To(g))
        Regular(ks) ==
          /\ \A k \in 1..Len(ks) : ~isRelaxed(vn[ks[k].id])
          /\ \A k \in 1..(Len(ks) - 1) : ks[k].n = Capacity(level)
        Branch(ks) ==
          [owner |-> owner,
           arr |-> [k \in 1..Len(ks) |-> ks[k].id],
           sizes |-> IF Regular(ks) THEN <<>>
                     ELSE [k \in 1..Len(ks) |-> SumN(ks, k)]]
    IN BuildTrie(vn \o [g \in 1..groups |-> Branch(Kids(g))], owner,
                 [g \in 1..groups |->
                    [id |-> Len(vn) + g, n |-> SumN(Kids(g), Len(Kids(g)))]],
                 level + BITS)

\* a Vec that is all tail
TailOnly(vn, tl, owner, xs) ==
  [vn |-> vn,
   tl |-> Append(tl, xs),
   vec |-> [count |-> Len(xs), treeCount |-> 0, shift |-> 0, root |-> 1,
            tail |-> Len(tl) + 1, tailOwner |-> owner]]

\* a Vec of the leaves es under a built trie, with tail xs
Treed(vn, tl, owner, es, xs) ==
  LET Rooted(t) ==
        [vn |-> t.vn,
         tl |-> Append(tl, xs),
         vec |-> [count |-> SumN(es, Len(es)) + Len(xs),
                  treeCount |-> SumN(es, Len(es)),
                  shift |-> t.shift, root |-> t.id,
                  tail |-> Len(tl) + 1, tailOwner |-> owner]]
  IN Rooted(BuildTrie(vn, owner, es, 0))

\* concat(a, b, owner): a Vec of a.count + b.count elements.  At most 32
\* elements fold into a single tail; otherwise the leaves of a, the tail of a
\* as one more leaf and the leaves of b come under one trie whose branches
\* over leaves of uneven size are relaxed, and the tail is that of b.
vecConcat(vn, tl, a, b, owner) ==
  IF a.count = 0 THEN [vn |-> vn, tl |-> tl, vec |-> b]
  ELSE IF b.count = 0 THEN [vn |-> vn, tl |-> tl, vec |-> a]
  ELSE IF a.count + b.count <= BRANCH_FACTOR THEN
    TailOnly(vn, tl, owner, vecToArray(vn, tl, a) \o vecToArray(vn, tl, b))
  ELSE
    Treed(Append(vn, VNode(owner, tl[a.tail])), tl, owner,
          TrieLeaves(vn, a)
            \o << [id |-> Len(vn) + 1, n |-> Len(tl[a.tail])] >>
            \o TrieLeaves(vn, b),
          tl[b.tail])

\* slice(v, owner, lo, hi): the elements in [lo, hi).  At most 32 elements
\* become a tail-only Vec; otherwise the leaves that lie wholly inside stay,
\* the leaves at the two ends are shaved, and the branches above leaves of
\* uneven size are relaxed.  The tail is what [lo, hi) covers of the tail of
\* v, or the last leaf when it covers none.
vecSlice(vn, tl, v, owner, lo, hi) ==
  LET from == IF lo < 0 THEN 0 ELSE IF lo > v.count THEN v.count ELSE lo
      to == IF hi > v.count THEN v.count ELSE IF hi < from THEN from ELSE hi
      ls == TrieLeaves(vn, v)
      treeEnd == IF to < v.treeCount THEN to ELSE v.treeCount
      \* what [from, treeEnd) covers of leaf k, as indices into the leaf
      First(k) == IF from > SumN(ls, k - 1) THEN from - SumN(ls, k - 1) ELSE 0
      Last(k) == IF treeEnd < SumN(ls, k) THEN treeEnd - SumN(ls, k - 1)
                                          ELSE ls[k].n
      Inside == SelectSeq([k \in 1..Len(ls) |-> k],
                          LAMBDA k : First(k) < Last(k))
      Whole(k) == First(k) = 0 /\ Last(k) = ls[k].n
      Shaved(k) == SubSeq(vn[ls[k].id].arr, First(k) + 1, Last(k))
      cut == SelectSeq(Inside, LAMBDA k : ~Whole(k))
      Pos(k) == CHOOSE c \in 1..Len(cut) : cut[c] = k
      vn1 == vn \o [c \in 1..Len(cut) |-> VNode(owner, Shaved(cut[c]))]
      es == [x \in 1..Len(Inside) |->
               IF Whole(Inside[x])
                 THEN ls[Inside[x]]
                 ELSE [id |-> Len(vn) + Pos(Inside[x]),
                       n |-> Last(Inside[x]) - First(Inside[x])]]
  IN IF to - from <= BRANCH_FACTOR THEN
       TailOnly(vn, tl, owner, SubSeq(vecToArray(vn, tl, v), from + 1, to))
     ELSE IF to > v.treeCount THEN
       Treed(vn1, tl, owner, es, SubSeq(tl[v.tail], 1, to - v.treeCount))
     ELSE
       Treed(vn1, tl, owner, SubSeq(es, 1, Len(es) - 1),
             vn1[es[Len(es)].id].arr)

-----------------------------------------------------------------------------
(* OrderIndex (order.ts): insertion order of the keys of an ordered Map or *)
(* Set.  st is the store [hn, vn, tl] of HAMT nodes, Vec nodes and tails.  *)

\* the JavaScript number i as a value (0 is taken by undefined)
Num(i) == i + 1

\* idxToVal is optional: hasVal tells whether it is there
OrderIndex(next, keyToIdx, idxToKey, hasVal, idxToVal, holes) ==
  [next |-> next, keyToIdx |-> keyToIdx, idxToKey |-> idxToKey,
   hasVal |-> hasVal, idxToVal |-> idxToVal, holes |-> holes]

orderEmpty == OrderIndex(0, hamtEmpty, emptyVec, FALSE, emptyVec, 0)

\* keyToIdx after the loop  keyToIdx = hamtSet(keyToIdx, owner, keys[i], i)
\* over keys[lo..hi], numbered from `first`
RECURSIVE IndexKeys(_, _, _, _, _, _, _)
IndexKeys(heap, map, owner, keys, lo, hi, first) ==
  IF lo > hi THEN [heap |-> heap, map |-> map]
  ELSE IF lo = hi THEN
    LET One(r) == [heap |-> r.heap, map |-> r.map]
    IN One(hamtSet(heap, map, owner, keys[lo], Num(first + lo - 1)))
  ELSE LET mid == (lo + hi) \div 2
           Right(l) ==
             IF Computed(l)
               THEN IndexKeys(l.heap, l.map, owner, keys, mid + 1, hi, first)
               ELSE l
       IN Right(IndexKeys(heap, map, owner, keys, lo, mid, first))

orderFromBase(st, entries, owner) ==
  LET keys == [i \in 1..Len(entries) |-> entries[i][1]]
      vals == [i \in 1..Len(entries) |-> entries[i][2]]
      Index(ix, kv, vv) ==
        [st |-> [hn |-> ix.heap, vn |-> vv.vn, tl |-> vv.tl],
         ord |-> OrderIndex(Len(keys), ix.map, kv.vec, TRUE, vv.vec, 0)]
      Vals(ix, kv) == Index(ix, kv, vecFromArray(kv.vn, kv.tl, vals))
  IN Vals(IndexKeys(st.hn, hamtEmpty, owner, keys, 1, Len(keys), 0),
          vecFromArray(st.vn, st.tl, keys))

orderFromSetBase(st, keys, owner) ==
  LET Index(ix, kv) ==
        [st |-> [hn |-> ix.heap, vn |-> kv.vn, tl |-> kv.tl],
         ord |-> OrderIndex(Len(keys), ix.map, kv.vec, FALSE, emptyVec, 0)]
  IN Index(IndexKeys(st.hn, hamtEmpty, owner, keys, 1, Len(keys), 0),
           vecFromArray(st.vn, st.tl, keys))

orderAppend(st, ord, owner, key) ==
  LET Index(ix, kv) ==
        [st |-> [hn |-> ix.heap, vn |-> kv.vn, tl |-> kv.tl],
         ord |-> OrderIndex(ord.next + 1, ix.map, kv.vec, FALSE, emptyVec,
                            ord.holes)]
  IN Index(hamtSet(st.hn, ord.keyToIdx, owner, key, Num(ord.next)),
           vecPush(st.vn, st.tl, ord.idxToKey, owner, key))

\* orderAppendWithValue that does not advance next
orderAppendWithValue_KeepsNext(st, ord, owner, key, value) ==
  LET Index(ix, kv, vv) ==
        [st |-> [hn |-> ix.heap, vn |-> vv.vn, tl |-> vv.tl],
         ord |-> OrderIndex(ord.next, ix.map, kv.vec, ord.hasVal,
                            vv.vec, ord.holes)]
      Vals(ix, kv) ==
        Index(ix, kv,
              IF ord.hasVal
                THEN vecPush(kv.vn, kv.tl, ord.idxToVal, owner, value)
                ELSE [vn |-> kv.vn, tl |-> kv.tl, vec |-> emptyVec])
  IN Vals(hamtSet(st.hn, ord.keyToIdx, owner, key, Num(ord.next)),
          vecPush(st.vn, st.tl, ord.idxToKey, owner, key))

orderAppendWithValue(st, ord, owner, key, value) ==
  LET Index(ix, kv, vv) ==
        [st |-> [hn |-> ix.heap, vn |-> vv.vn, tl |-> vv.tl],
         ord |-> OrderIndex(ord.next + 1, ix.map, kv.vec, ord.hasVal,
                            vv.vec, ord.holes)]
      Vals(ix, kv) ==
        Index(ix, kv,
              IF ord.hasVal
                THEN vecPush(kv.vn, kv.tl, ord.idxToVal, owner, value)
                ELSE [vn |-> kv.vn, tl |-> kv.tl, vec |-> emptyVec])
  IN Vals(hamtSet(st.hn, ord.keyToIdx, owner, key, Num(ord.next)),
          vecPush(st.vn, st.tl, ord.idxToKey, owner, key))

\* err: vecAssoc raised its IndexError
orderUpdateValue(st, ord, owner, key, value) ==
  LET Update(idx, vv) ==
        [st |-> [st EXCEPT !.vn = vv.vn, !.tl = vv.tl],
         ord |-> [ord EXCEPT !.idxToVal = vv.vec],
         err |-> vv.err]
      At0(idx) ==
        IF ~ord.hasVal \/ idx = UNDEF
          THEN [st |-> st, ord |-> ord, err |-> FALSE]
          ELSE Update(idx, vecAssoc(st.vn, st.tl, ord.idxToVal, owner,
                                    idx - 1, value))
  IN At0(hamtGet(st.hn, ord.keyToIdx, key))

\* the slots of idxToKey that hold a key, in order
LiveSlots(st, ord) ==
  SelectSeq([i \in 1..ord.idxToKey.count |-> i - 1],
            LAMBDA i : vecGet(st.vn, st.tl, ord.idxToKey, i) # DELETED)

\* orderCompact that leaves out the last live key
orderCompact_DropsLast(st, ord, owner) ==
  IF ord.holes = 0 THEN [st |-> st, ord |-> ord]
  ELSE
    LET Index(n, ix, kv, vv) ==
          [st |-> [hn |-> ix.heap, vn |-> vv.vn, tl |-> vv.tl],
           ord |-> OrderIndex(n, ix.map, kv.vec, ord.hasVal, vv.vec, 0)]
        Vals(newVals, ix, kv) ==
          Index(Len(newVals), ix, kv,
                IF ord.hasVal
                  THEN vecFromArray(kv.vn, kv.tl, newVals)
                  ELSE [vn |-> kv.vn, tl |-> kv.tl, vec |-> emptyVec])
        Keys(newKeys, newVals) ==
          Vals(newVals,
               IndexKeys(st.hn, hamtEmpty, owner, newKeys, 1, Len(newKeys),
                         0),
               vecFromArray(st.vn, st.tl, newKeys))
        Live(live) ==
          Keys([j \in 1..Len(live) |->
                  vecGet(st.vn, st.tl, ord.idxToKey, live[j])],
               [j \in 1..Len(live) |->
                  vecGet(st.vn, st.tl, ord.idxToVal, live[j])])
        AllButLast(live) == Live(SubSeq(live, 1, Len(live) - 1))
    IN AllButLast(LiveSlots(st, ord))

orderCompact(st, ord, owner) ==
  IF ord.holes = 0 THEN [st |-> st, ord |-> ord]
  ELSE
    LET Index(n, ix, kv, vv) ==
          [st |-> [hn |-> ix.heap, vn |-> vv.vn, tl |-> vv.tl],
           ord |-> OrderIndex(n, ix.map, kv.vec, ord.hasVal, vv.vec, 0)]
        Vals(newVals, ix, kv) ==
          Index(Len(newVals), ix, kv,
                IF ord.hasVal
                  THEN vecFromArray(kv.vn, kv.tl, newVals)
                  ELSE [vn |-> kv.vn, tl |-> kv.tl, vec |-> emptyVec])
        Keys(newKeys, newVals) ==
          Vals(newVals,
               IndexKeys(st.hn, hamtEmpty, owner, newKeys, 1, Len(newKeys),
                         0),
               vecFromArray(st.vn, st.tl, newKeys))
        Live(live) ==
          Keys([j \in 1..Len(live) |->
                  vecGet(st.vn, st.tl, ord.idxToKey, live[j])],
               [j \in 1..Len(live) |->
                  vecGet(st.vn, st.tl, ord.idxToVal, live[j])])
    IN Live(LiveSlots(st, ord))

\* orderDelete that compacts already when half of the slots are holes
orderDelete_AtHalf(st, ord, owner, key) ==
  LET newHoles == ord.holes + 1
      Holed(ix, kv, vv) ==
        [st |-> [hn |-> ix.heap, vn |-> vv.vn, tl |-> vv.tl],
         ord |-> OrderIndex(ord.next, ix.map, kv.vec, ord.hasVal, vv.vec,
                            newHoles)]
      \* newHoles >= ord.next * ORDER_COMPACT_RATIO && ord.next > 32
      Settle(r) ==
        IF newHoles * COMPACT_RATIO_DEN >= ord.next * COMPACT_RATIO_NUM
             /\ ord.next > BRANCH_FACTOR
          THEN orderCompact(r.st, r.ord, owner)
          ELSE r
      Vals(idx, ix, kv) ==
        Settle(Holed(ix, kv,
                     IF ord.hasVal
                       THEN vecAssoc(kv.vn, kv.tl, ord.idxToVal, owner,
                                     idx - 1, DELETED)
                       ELSE [vn |-> kv.vn, tl |-> kv.tl, vec |-> emptyVec]))
      At0(idx) ==
        IF idx = UNDEF THEN [st |-> st, ord |-> ord]
        ELSE Vals(idx, hamtDelete(st.hn, ord.keyToIdx, owner, key),
                  vecAssoc(st.vn, st.tl, ord.idxToKey, owner, idx - 1,
                           DELETED))
  IN At0(hamtGet(st.hn, ord.keyToIdx, key))

orderDelete(st, ord, owner, key) ==
  LET newHoles == ord.holes + 1
      Holed(ix, kv, vv) ==
        [st |-> [hn |-> ix.heap, vn |-> vv.vn, tl |-> vv.tl],
         ord |-> OrderIndex(ord.next, ix.map, kv.vec, ord.hasVal, vv.vec,
                            newHoles)]
      \* newHoles > ord.next * ORDER_COMPACT_RATIO && ord.next > 32
      Settle(r) ==
        IF newHoles * COMPACT_RATIO_DEN > ord.next * COMPACT_RATIO_NUM
             /\ ord.next > BRANCH_FACTOR
          THEN orderCompact(r.st, r.ord, owner)
          ELSE r
      Vals(idx, ix, kv) ==
        Settle(Holed(ix, kv,
                     IF ord.hasVal
                       THEN vecAssoc(kv.vn, kv.tl, ord.idxToVal, owner,
                                     idx - 1, DELETED)
                       ELSE [vn |-> kv.vn, tl |-> kv.tl, vec |-> emptyVec]))
      At0(idx) ==
        IF idx = UNDEF THEN [st |-> st, ord |-> ord]
        ELSE Vals(idx, hamtDelete(st.hn, ord.keyToIdx, owner, key),
                  vecAssoc(st.vn, st.tl, ord.idxToKey, owner, idx - 1,
                           DELETED))
  IN At0(hamtGet(st.hn, ord.keyToIdx, key))

\* orderIter: the keys in idxToKey order, DELETED slots skipped
orderIter(st, ord) ==
  LET Keys(live) ==
        [j \in 1..Len(live) |-> vecGet(st.vn, st.tl, ord.idxToKey, live[j])]
  IN Keys(LiveSlots(st, ord))

\* orderEntryIter: nothing without idxToVal; stops at the shorter Vec
orderEntryIter(st, ord) ==
  IF ~ord.hasVal THEN <<>>
  ELSE
    LET n == IF ord.idxToKey.count < ord.idxToVal.count
               THEN ord.idxToKey.count ELSE ord.idxToVal.count
        live == SelectSeq([i \in 1..n |-> i - 1],
                          LAMBDA i :
                            vecGet(st.vn, st.tl, ord.idxToKey, i) # DELETED)
    IN [j \in 1..Len(live) |->
          <<vecGet(st.vn, st.tl, ord.idxToKey, live[j]),
            vecGet(st.vn, st.tl, ord.idxToVal, live[j])>>]

-----------------------------------------------------------------------------
(* Low-level Vec session: what it records of an operation                  *)

VNoOp == [op |-> "none", i |-> 0, v |-> 0, val |-> 0, err |-> FALSE,
          pre |-> <<>>]

\* the low-level Vec session is not running
VIdle == [on |-> FALSE, vec |-> emptyVec, own |-> 0, last |-> VNoOp,
          prev |-> VNoOp, ops |-> 0]

-----------------------------------------------------------------------------
(* Low-level HAMT session: hamtSet / hamtDelete applied to a map built by  *)
(* hamtFromMap, under an owner token that may be replaced by a fresh one.  *)

NumHamtKeys == 5
HKeys == 1..NumHamtKeys
HVals == {1, 2}

\* the native Maps the session starts from (entries in insertion order)
HSeeds == { <<>>,
            << <<1, 1>>, <<2, 1>> >>,
            << <<1, 1>>, <<3, 1>>, <<4, 2>> >>,
            << <<5, 1>>, <<2, 2>>, <<3, 2>>, <<1, 1>> >> }

HContent(heap, map) == [k \in HKeys |-> hamtGet(heap, map, k)]
HPresent(heap, map) == {k \in HKeys : hamtHas(heap, map, k)}
HEntries(heap, map) ==
  LET it == hamtIter(heap, map) IN {it[i] : i \in 1..Len(it)}

HNoOp == [op |-> "none", key |-> 0, value |-> 0, same |-> FALSE,
          pre |-> [k \in HKeys |-> 0], preHas |-> {}, preSize |-> 0,
          preEntries |-> {}]
HOp(op, key, value, same) ==
  [op |-> op, key |-> key, value |-> value, same |-> same,
   pre |-> HContent(hnodes, hm), preHas |-> HPresent(hnodes, hm),
   preSize |-> hm.size, preEntries |-> HEntries(hnodes, hm)]

HInit ==
  /\ \E seed \in HSeeds :
       LET r == hamtFromMap(<<>>, seed, 1)
       IN hnodes = r.heap /\ hm = r.map
  /\ hown \in {0, 2}
  /\ hlast = HNoOp
  /\ hprev = HNoOp
  /\ hops = 0
  /\ vs = VIdle
  /\ vnodes = <<>> /\ tails = <<>> /\ objs = <<>> /\ nps = <<>>
  /\ handles = <<>> /\ draft = [live |-> FALSE, kind |-> "none"]
  /\ ret = [status |-> "none"] /\ got = 0
  /\ nextOwner = 0 /\ opsLeft = 0 /\ callsLeft = 0

HSet(k, v) ==
  /\ hops < MaxHamtOps
  /\ LET r == hamtSet(hnodes, hm, hown, k, v)
     IN /\ hnodes' = r.heap
        /\ hm' = r.map
        /\ hlast' = HOp("set", k, v, r.same)
  /\ hprev' = hlast
  /\ hops' = hops + 1
  /\ UNCHANGED <<hown, vs, pvars>>

HDelete(k) ==
  /\ hops < MaxHamtOps
  /\ LET r == hamtDelete(hnodes, hm, hown, k)
     IN /\ hnodes' = r.heap
        /\ hm' = r.map
        /\ hlast' = HOp("delete", k, 0, r.same)
  /\ hprev' = hlast
  /\ hops' = hops + 1
  /\ UNCHANGED <<hown, vs, pvars>>

\* the edit ends and a later one starts under a fresh token (or under none)
HNewOwner ==
  /\ hops < MaxHamtOps
  /\ hown' = IF hown = 0 THEN 2 ELSE hown + 1
  /\ hlast' = HNoOp
  /\ hprev' = HNoOp
  /\ hops' = hops + 1
  /\ UNCHANGED <<hnodes, hm, vs, pvars>>

HNext ==
  \/ \E k \in HKeys, v \in HVals : HSet(k, v)
  \/ \E k \in HKeys : HDelete(k)
  \/ HNewOwner

SpecHamt == HInit /\ [][HNext]_vars

\* the session over keys whose hashes part only at the last digits
DeepKeys == {1, 2, 3, 41, 42}

DeepSeeds == { <<>>,
               << <<1, 1>>, <<41, 1>> >>,
               << <<42, 1>>, <<2, 1>>, <<1, 2>> >>,
               << <<3, 1>>, <<41, 2>>, <<42, 1>> >> }

DInit ==
  /\ \E seed \in DeepSeeds :
       LET r == hamtFromMap(<<>>, seed, 1)
       IN hnodes = r.heap /\ hm = r.map
  /\ hown \in {0, 2}
  /\ hlast = HNoOp
  /\ hprev = HNoOp
  /\ hops = 0
  /\ vs = VIdle
  /\ vnodes = <<>> /\ tails = <<>> /\ objs = <<>> /\ nps = <<>>
  /\ handles = <<>> /\ draft = [live |-> FALSE, kind |-> "none"]
  /\ ret = [status |-> "none"] /\ got = 0
  /\ nextOwner = 0 /\ opsLeft = 0 /\ callsLeft = 0

DNext ==
  \/ \E k \in DeepKeys, v \in HVals : HSet(k, v)
  \/ \E k \in DeepKeys : HDelete(k)
  \/ HNewOwner

SpecDeep == DInit /\ [][DNext]_vars

-----------------------------------------------------------------------------
(* Low-level Vec session: vecPush / vecPop / vecAssoc applied to a Vec    *)
(* built by vecFromArray, under an owner token that may be replaced.      *)

\* the operation op(i, v) that is about to act, what it returns (val, err)
\* and the elements it finds
VOp(op, i, v, val, err) ==
  [op |-> op, i |-> i, v |-> v, val |-> val, err |-> err,
   pre |-> vecToArray(vnodes, tails, vs.vec)]

MaxVecOps == 2

\* the lengths of the arrays the session starts from: at and around the
\* multiples of 32, and 1056 = 32 * 32 + 32, a full trie of two levels
\* under a full tail
VLens == {0, 1, 31, 32, 33, 63, 64, 65, 1056}
VElem(i) == (i % 7) + 1
VVals == {UNDEF, 8}

\* indices worth a write: the ends of the trie and of the tail, and the
\* first ones outside
VIdx(vec) == {0, 31, vec.treeCount - 1, vec.treeCount, vec.count - 1,
              vec.count}

VStart(lens, owners) ==
  /\ \E n \in lens, o \in owners :
       LET Built(r) ==
             /\ vnodes = r.vn
             /\ tails = r.tl
             /\ vs = [VIdle EXCEPT !.on = TRUE, !.vec = r.vec, !.own = o]
       IN Built(vecFromArray(EmptyVNodes, EmptyTails,
                             [i \in 1..n |-> VElem(i)]))
  /\ hnodes = <<>> /\ hm = hamtEmpty /\ hown = 0
  /\ hlast = HNoOp /\ hprev = HNoOp /\ hops = 0
  /\ objs = <<>> /\ nps = <<>>
  /\ handles = <<>> /\ draft = [live |-> FALSE, kind |-> "none"]
  /\ ret = [status |-> "none"] /\ got = 0
  /\ nextOwner = 0 /\ opsLeft = 0 /\ callsLeft = 0

VInit == VStart(VLens, {0, 2})

VUnchanged ==
  UNCHANGED <<hnodes, hm, hown, hlast, hprev, hops, objs, nps, handles,
              draft, ret, got, nextOwner, opsLeft, callsLeft>>

VPush(v) ==
  /\ vs.on /\ vs.ops < MaxVecOps
  /\ LET Pushed(r) ==
           /\ vnodes' = r.vn
           /\ tails' = r.tl
           /\ vs' = [vs EXCEPT !.vec = r.vec, !.prev = vs.last,
                               !.last = VOp("push", vs.vec.count, v, UNDEF,
                                            FALSE),
                               !.ops = @ + 1]
     IN Pushed(vecPush(vnodes, tails, vs.vec, vs.own, v))
  /\ VUnchanged

VPop ==
  /\ vs.on /\ vs.ops < MaxVecOps
  /\ LET Popped(r) ==
           /\ vnodes' = r.vn
           /\ tails' = r.tl
           /\ vs' = [vs EXCEPT !.vec = r.vec, !.prev = vs.last,
                               !.last = VOp("pop", 0, 0, r.val, FALSE),
                               !.ops = @ + 1]
     IN Popped(vecPop(vnodes, tails, vs.vec, vs.own))
  /\ VUnchanged

VAssoc(i, v) ==
  /\ vs.on /\ vs.ops < MaxVecOps
  /\ LET Written(r) ==
           /\ vnodes' = r.vn
           /\ tails' = r.tl
           /\ vs' = [vs EXCEPT !.vec = r.vec, !.prev = vs.last,
                               !.last = VOp("assoc", i, v, UNDEF, r.err),
                               !.ops = @ + 1]
     IN Written(vecAssoc(vnodes, tails, vs.vec, vs.own, i, v))
  /\ VUnchanged

\* the edit ends and a later one starts under a fresh token (or under none)
VNewOwner ==
  /\ vs.on /\ vs.ops < MaxVecOps
  /\ vs' = [vs EXCEPT !.own = IF @ = 0 THEN 2 ELSE @ + 1, !.ops = @ + 1]
  /\ UNCHANGED <<vnodes, tails>>
  /\ VUnchanged

MaxSeqOps == 2
MaxSeqCalls == 1

\* arrays to concatenate with: none, one element, a leaf and a tail
VSeqs == { [i \in 1..n |-> 10 + (i % 3)] : n \in {0, 1, 33} }

\* bounds of a slice: around the first leaf, at the end of the trie, at
\* the end of the Vec
VCuts(vec) ==
  {c \in {0, 1, 33, vec.treeCount, vec.count} :
     c >= 0 /\ c <= vec.count}

\* concat of the session's Vec with fromArray(ys), on the side asked for
VConcat(ys, front) ==
  /\ vs.on /\ vs.ops < MaxSeqOps
  /\ LET Joined(r) ==
           /\ vnodes' = r.vn
           /\ tails' = r.tl
           /\ vs' = [vs EXCEPT !.vec = r.vec, !.prev = vs.last,
                               !.last = VOp("concat", IF front THEN 1 ELSE 0,
                                            ys, UNDEF, FALSE),
                               !.ops = @ + 1]
         Other(b) ==
           Joined(IF front
                    THEN vecConcat(b.vn, b.tl, b.vec, vs.vec, vs.own)
                    ELSE vecConcat(b.vn, b.tl, vs.vec, b.vec, vs.own))
     IN Other(vecFromArray(vnodes, tails, ys))
  /\ VUnchanged

VSlice(lo, hi) ==
  /\ vs.on /\ vs.ops < MaxSeqOps
  /\ lo <= hi
  /\ LET Sliced(r) ==
           /\ vnodes' = r.vn
           /\ tails' = r.tl
           /\ vs' = [vs EXCEPT !.vec = r.vec, !.prev = vs.last,
                               !.last = VOp("slice", lo, hi, UNDEF, FALSE),
                               !.ops = @ + 1]
     IN Sliced(vecSlice(vnodes, tails, vs.vec, vs.own, lo, hi))
  /\ VUnchanged

VNext ==
  \/ \E v \in VVals : VPush(v)
  \/ VPop
  \/ \E i \in VIdx(vs.vec), v \in VVals : VAssoc(i, v)
  \/ VNewOwner

SpecVec == VInit /\ [][VNext]_vars

-----------------------------------------------------------------------------
\* C4: after hamtSet(m, o, k, v), hamtGet of k is v and hamtGet of every
\* other key is what it was in m, also for keys sharing hash digits or the
\* whole hash with k.
C4_SetGet ==
  hlast.op = "set" =>
    /\ hamtGet(hnodes, hm, hlast.key) = hlast.value
    /\ \A k \in HKeys \ {hlast.key} :
         hamtGet(hnodes, hm, k) = hlast.pre[k]

\* a set of key 2 (full collision with key 1) while keys 1 and 156 are in m
C4_Witness ==
  /\ hlast.op = "set" /\ hlast.key = 2
  /\ {1, 3} \subseteq hlast.preHas /\ 2 \notin hlast.preHas
  /\ hm.size = hlast.preSize + 1

\* C5: after hamtDelete(m, o, k), k is absent and every other key keeps
\* its value; deleting a key right after setting it, when it was absent
\* before, gives back exactly the entries and size of the original map.
C5_DeleteSet ==
  hlast.op = "delete" =>
    /\ ~hamtHas(hnodes, hm, hlast.key)
    /\ \A k \in HKeys \ {hlast.key} :
         /\ hamtGet(hnodes, hm, k) = hlast.pre[k]
         /\ hamtHas(hnodes, hm, k) = (k \in hlast.preHas)
    /\ (hprev.op = "set" /\ hprev.key = hlast.key
          /\ hlast.key \notin hprev.preHas) =>
         /\ HEntries(hnodes, hm) = hprev.preEntries
         /\ hm.size = hprev.preSize
         /\ HPresent(hnodes, hm) = hprev.preHas

\* key 156 set into a map holding 1 and 4294967297, then deleted again
C5_Witness ==
  /\ hlast.op = "delete" /\ hprev.op = "set"
  /\ hlast.key = 3 /\ hprev.key = 3
  /\ 3 \notin hprev.preHas /\ {1, 2} \subseteq hprev.preHas
  /\ ~hlast.same

-----------------------------------------------------------------------------
(* Nested drafts (nested-proxy.ts): copy-on-write facades over plain       *)
(* records.  A value >= 100 names the record objs[v - 100]; a value        *)
(* >= 1000 handed to the recipe names the nested draft nps[v - 1000].      *)

Fields == {"a", "b"}

IsObj(v) == v >= 100
ObjId(v) == v - 100
ObjRef(id) == 100 + id
ProxyRef(p) == 1000 + p

\* a JavaScript Map from slot to nested draft, in insertion order
MapHas(m, k) == \E i \in 1..Len(m) : m[i].k = k
MapGet(m, k) == m[CHOOSE i \in 1..Len(m) : m[i].k = k].p
MapSet(m, k, p) ==
  IF MapHas(m, k)
    THEN [i \in 1..Len(m) |-> IF m[i].k = k THEN [k |-> k, p |-> p]
                                            ELSE m[i]]
    ELSE Append(m, [k |-> k, p |-> p])
MapDelete(m, k) == SelectSeq(m, LAMBDA e : e.k # k)

\* state of createNestedProxy(base, onMutate): parent names what onMutate
\* does: 0 sets the root draft's modified flag, p > 0 calls getCopy of the
\* nested draft p
NestedProxyState(base, parent) ==
  [base |-> base, copy |-> 0, children |-> <<>>, parent |-> parent]

\* getCopy that copies without calling onMutate
getCopy_Silent(w, p) ==
  IF w.nps[p].copy # 0 THEN w
  ELSE [w EXCEPT !.objs = Append(@, w.objs[w.nps[p].base]),
                 !.nps[p].copy = Len(w.objs) + 1]

\* w is the part of the state a nested draft can touch:
\* [objs, nps, modified]
RECURSIVE getCopy(_, _)
getCopy(w, p) ==
  IF w.nps[p].copy # 0 THEN w
  ELSE LET w1 == [w EXCEPT !.objs = Append(@, w.objs[w.nps[p].base]),
                           !.nps[p].copy = Len(w.objs) + 1]
           par == w.nps[p].parent
       IN IF par = 0 THEN [w1 EXCEPT !.modified = TRUE]
          ELSE getCopy(w1, par)

\* get trap of a nested record draft
nestedGet(w, p, prop) ==
  LET st == w.nps[p]
      source == IF st.copy # 0 THEN st.copy ELSE st.base
      value == w.objs[source].f[prop]
  IN IF IsObj(value) THEN
       IF MapHas(st.children, prop)
         THEN [w |-> w, val |-> ProxyRef(MapGet(st.children, prop))]
         ELSE [w |-> [w EXCEPT
                        !.nps = Append([@ EXCEPT ![p].children =
                                          Append(@, [k |-> prop,
                                                     p |-> Len(w.nps) + 1])],
                                       NestedProxyState(ObjId(value), p))],
               val |-> ProxyRef(Len(w.nps) + 1)]
     ELSE [w |-> w, val |-> value]

\* set trap that writes into the base record
nestedSet_OnBase(w, p, prop, value) ==
  [w EXCEPT !.objs[w.nps[p].base].f[prop] = value, !.modified = TRUE]

\* set trap of a nested record draft
nestedSet(w, p, prop, value) ==
  LET Write(w1) ==
        [w1 EXCEPT !.nps[p].children = MapDelete(@, prop),
                   !.objs[w1.nps[p].copy].f[prop] = value]
  IN Write(getCopy(w, p))

\* extractNestedValue that hands back the base record
extractNestedValue_Base(ob, np, p) ==
  [objs |-> ob, val |-> ObjRef(np[p].base)]

\* extractNestedValue that always hands back a fresh copy of the base
extractNestedValue_Fresh(ob, np, p) ==
  [objs |-> Append(ob, ob[np[p].base]), val |-> ObjRef(Len(ob) + 1)]

RECURSIVE isProxyModified(_, _)
isProxyModified(np, p) ==
  \/ np[p].copy # 0
  \/ \E i \in 1..Len(np[p].children) :
       isProxyModified(np, np[p].children[i].p)

\* a plain array is held as the sequence of its elements: key i + 1 is
\* the JavaScript index i
PlainArr(elems) == [f |-> elems, arr |-> TRUE]
IsArr(o) == "arr" \in DOMAIN o

\* the keys of o after  o[key] = value  for each key of mods: an array
\* grows up to the largest index assigned
KeysAfter(o, mods) ==
  LET ks == DOMAIN o.f \cup { mods[i].k : i \in 1..Len(mods) }
  IN IF IsArr(o) THEN 1..(CHOOSE m \in ks \cup {0} : \A k \in ks : k <= m)
                 ELSE ks

RECURSIVE extractNestedValue(_, _, _)
RECURSIVE ExtractChildren(_, _, _, _)
ExtractChildren(ob, np, children, i) ==
  IF i > Len(children) THEN [objs |-> ob, mods |-> <<>>]
  ELSE IF isProxyModified(np, children[i].p) THEN
    LET Join(e, rest) ==
          [objs |-> rest.objs,
           mods |-> <<[k |-> children[i].k, v |-> e.val]>> \o rest.mods]
        Rest(e) == Join(e, ExtractChildren(e.objs, np, children, i + 1))
    IN Rest(extractNestedValue(ob, np, children[i].p))
  ELSE ExtractChildren(ob, np, children, i + 1)
extractNestedValue(ob, np, p) ==
  LET st == np[p]
      \* ch: the final values of the modified children
      Result(ch) ==
        IF st.copy = 0 /\ Len(ch.mods) = 0
          THEN [objs |-> ob, val |-> ObjRef(st.base)]
          ELSE
            LET o1 == IF st.copy = 0 THEN Append(ch.objs, ch.objs[st.base])
                                     ELSE ch.objs
                res == IF st.copy = 0 THEN Len(ch.objs) + 1 ELSE st.copy
                final(x) ==
                  IF \E i \in 1..Len(ch.mods) : ch.mods[i].k = x
                    THEN ch.mods[CHOOSE i \in 1..Len(ch.mods) :
                                   ch.mods[i].k = x].v
                  ELSE IF x \in DOMAIN o1[res].f THEN o1[res].f[x]
                  ELSE UNDEF
            IN [objs |-> [o1 EXCEPT ![res].f =
                            [x \in KeysAfter(o1[res], ch.mods) |-> final(x)]],
                val |-> ObjRef(res)]
  IN Result(ExtractChildren(ob, np, st.children, 1))

\* the content of a value as a reader sees it: the value itself and, for a
\* record, the content of each of its fields
RECURSIVE Deep(_, _)
Deep(ob, v) ==
  IF IsObj(v)
    THEN [v |-> v, f |-> [x \in DOMAIN ob[ObjId(v)].f |->
                            Deep(ob, ob[ObjId(v)].f[x])]]
  ELSE [v |-> v]

DeepSeq(ob, xs) == [i \in 1..Len(xs) |-> Deep(ob, xs[i])]

-----------------------------------------------------------------------------
(* produce over arrays (createArrayProxy, produceArray).                   *)

Rec(f) == [f |-> f]

\* one step of a recipe, as the caller wrote it
Op(op, i, f, v) == [op |-> op, i |-> i, f |-> f, v |-> v]

NoDraft == [live |-> FALSE, kind |-> "none", calls |-> 0, given |-> 0]

\* a draft whose recipe is never called
recipeCall_Skipped(d, arg) == d

\* recipe(draft), recipe(base): the call of the recipe.  calls: how often
\* this produce call has called it; given: what it received, 0 for the
\* draft and h for the value behind handle h itself
recipeCall(d, arg) == [d EXCEPT !.calls = @ + 1, !.given = arg]
NoRet == [status |-> "none"]

\* the low-level HAMT session is not running
HIdle ==
  /\ hm = hamtEmpty /\ hown = 0
  /\ hlast = HNoOp /\ hprev = HNoOp /\ hops = 0
  /\ vs = VIdle

ArrContent(h) ==
  IF handles[h].managed THEN vecToArray(vnodes, tails, handles[h].vec)
                        ELSE handles[h].elems

\* a native Map as the sequence of its entries <<k, v>> in insertion order
\* (a native Set: entries <<k, true>>)
NKeys(entries) == [i \in 1..Len(entries) |-> entries[i][1]]
NHas(entries, k) == \E i \in 1..Len(entries) : entries[i][1] = k
NGetValue(entries, k) ==
  IF NHas(entries, k)
    THEN entries[CHOOSE i \in 1..Len(entries) : entries[i][1] = k][2]
    ELSE UNDEF
NSet(entries, k, v) ==
  IF NHas(entries, k)
    THEN [i \in 1..Len(entries) |->
            IF entries[i][1] = k THEN <<k, v>> ELSE entries[i]]
    ELSE Append(entries, <<k, v>>)
NDelete(entries, k) == SelectSeq(entries, LAMBDA e : e[1] # k)

\* keys a Map or Set is asked about
MKeys == {1, 2, 3}

Store == [hn |-> hnodes, vn |-> vnodes, tl |-> tails]

\* keys() of a managed Map or Set with state m: insertion order when
\* ordered, trie order otherwise
iterKeys(st, m) ==
  IF m.ordered THEN orderIter(st, m.ord)
  ELSE LET it == hamtIter(st.hn, m.map) IN [i \in 1..Len(it) |-> it[i][1]]

\* size, has, get and keys() of a managed Map or Set with state m
ManagedView(st, ob, m) ==
  [size |-> m.map.size,
   has |-> {k \in MKeys : hamtHas(st.hn, m.map, k)},
   get |-> [k \in MKeys |-> Deep(ob, hamtGet(st.hn, m.map, k))],
   keys |-> iterKeys(st, m)]

\* the same of a native Map or Set
NativeView(ob, entries) ==
  [size |-> Len(entries),
   has |-> {k \in MKeys : NHas(entries, k)},
   get |-> [k \in MKeys |-> Deep(ob, NGetValue(entries, k))],
   keys |-> NKeys(entries)]

\* what a reader sees through handle h
Observed(h) ==
  IF handles[h].kind = "arr" THEN DeepSeq(objs, ArrContent(h))
  ELSE IF handles[h].kind = "rec" THEN Deep(objs, handles[h].obj)
  ELSE IF handles[h].kind = "plain" THEN Deep(objs, handles[h].val)
  ELSE IF handles[h].managed THEN ManagedView(Store, objs, handles[h])
  ELSE NativeView(objs, handles[h].entries)

\* PuraArrayState of a draft, with the recipe run so far and a native copy
\* of base that received the same push / pop / index assignments
ArrayDraft(h, vec, owner) ==
  [live |-> TRUE, kind |-> "arr", base |-> h, vec |-> vec, owner |-> owner,
   modified |-> FALSE, proxies |-> <<>>,
   before |-> Observed(h), native |-> ArrContent(h), recipe |-> <<>>,
   calls |-> 0, given |-> 0]

ArrHandle(managed, vec, elems, from, before, recipe) ==
  [kind |-> "arr", managed |-> managed, vec |-> vec, elems |-> elems, from |-> from,
   before |-> before, recipe |-> recipe, direct |-> 0]

\* indices a recipe step addresses
AIdx(count) == {i \in {0, count - 1} : i >= 0 /\ i < count}

World == [objs |-> objs, nps |-> nps, modified |-> draft.modified]

\* produceArray up to the call of the recipe
ABegin(h) ==
  /\ ~draft.live
  /\ handles[h].kind = "arr"
  /\ callsLeft > 0
  /\ opsLeft > 0
  /\ LET Start(b) ==
           /\ vnodes' = b.vn
           /\ tails' = b.tl
           /\ draft' = recipeCall(ArrayDraft(h, [b.vec EXCEPT
                                                     !.tailOwner = 0],
                                             nextOwner + 1), 0)
     IN Start(IF handles[h].managed
                THEN [vn |-> vnodes, tl |-> tails, vec |-> handles[h].vec]
                ELSE vecFromArray(vnodes, tails, handles[h].elems))
  /\ nextOwner' = nextOwner + 1
  /\ callsLeft' = callsLeft - 1
  /\ nps' = <<>>
  /\ got' = 0
  /\ UNCHANGED <<hnodes, hvars, objs, handles, ret, opsLeft>>

\* draft.push(v)
APush(v) ==
  /\ draft.live /\ draft.kind = "arr"
  /\ opsLeft > 0
  /\ LET Pushed(r) ==
           /\ vnodes' = r.vn
           /\ tails' = r.tl
           /\ draft' = [draft EXCEPT
                          !.vec = r.vec, !.modified = TRUE,
                          !.native = Append(@, v),
                          !.recipe = Append(@, Op("push", 0, "", v))]
           /\ got' = r.vec.count
     IN Pushed(vecPush(vnodes, tails, draft.vec, draft.owner, v))
  /\ opsLeft' = opsLeft - 1
  /\ UNCHANGED <<hnodes, hvars, objs, nps, handles, ret, nextOwner, callsLeft>>

\* draft.pop() that returns the element but keeps the old vec
APop_KeepVec ==
  /\ draft.live /\ draft.kind = "arr"
  /\ opsLeft > 0
  /\ LET n == Len(draft.native)
         Popped(r) ==
           /\ vnodes' = r.vn
           /\ tails' = r.tl
           /\ draft' = [draft EXCEPT
                          !.modified = IF r.val # UNDEF THEN TRUE ELSE @,
                          !.native = IF n = 0 THEN @ ELSE SubSeq(@, 1, n - 1),
                          !.recipe = Append(@, Op("pop", n, "",
                                       IF n = 0 THEN UNDEF
                                                ELSE draft.native[n]))]
           /\ got' = r.val
     IN Popped(vecPop(vnodes, tails, draft.vec, draft.owner))
  /\ opsLeft' = opsLeft - 1
  /\ UNCHANGED <<hnodes, hvars, objs, nps, handles, ret, nextOwner, callsLeft>>

\* draft.pop()
APop ==
  /\ draft.live /\ draft.kind = "arr"
  /\ opsLeft > 0
  /\ LET n == Len(draft.native)
         Popped(r) ==
           /\ vnodes' = r.vn
           /\ tails' = r.tl
           /\ draft' = [draft EXCEPT
                          !.vec = r.vec,
                          !.modified = IF r.val # UNDEF THEN TRUE ELSE @,
                          !.native = IF n = 0 THEN @ ELSE SubSeq(@, 1, n - 1),
                          !.recipe = Append(@, Op("pop", n, "",
                                       IF n = 0 THEN UNDEF
                                                ELSE draft.native[n]))]
           /\ got' = r.val
     IN Popped(vecPop(vnodes, tails, draft.vec, draft.owner))
  /\ opsLeft' = opsLeft - 1
  /\ UNCHANGED <<hnodes, hvars, objs, nps, handles, ret, nextOwner, callsLeft>>

\* draft[i] = v
AAssign(i, v) ==
  /\ draft.live /\ draft.kind = "arr"
  /\ opsLeft > 0
  /\ i >= 0 /\ i <= draft.vec.count
  /\ LET Assigned(r) ==
           /\ vnodes' = r.vn
           /\ tails' = r.tl
           /\ draft' = [draft EXCEPT
                          !.vec = r.vec, !.modified = TRUE,
                          !.proxies = IF i < draft.vec.count
                                        THEN MapDelete(@, i) ELSE @,
                          !.native = IF i < Len(@)
                                       THEN [@ EXCEPT ![i + 1] = v]
                                     ELSE IF i = Len(@) THEN Append(@, v)
                                     ELSE @,
                          !.recipe = Append(@, Op(IF i < draft.vec.count
                                                    THEN "assign"
                                                    ELSE "extend",
                                                  i, "", v))]
     IN Assigned(IF i < draft.vec.count
                   THEN vecAssoc(vnodes, tails, draft.vec, draft.owner, i, v)
                   ELSE vecPush(vnodes, tails, draft.vec, draft.owner, v))
  /\ opsLeft' = opsLeft - 1
  /\ UNCHANGED <<hnodes, hvars, objs, nps, handles, ret, got, nextOwner,
                 callsLeft>>

\* vecGetCached: the read of the array proxy, by the digits of the index
\* alone (the leaf it caches is the leaf this walk ends in)
vecGetCached(vn, tl, vec, i) ==
  IF i < 0 \/ i >= vec.count THEN UNDEF
  ELSE IF i >= vec.treeCount THEN At(tl[vec.tail], i - vec.treeCount)
  ELSE At(vn[LeafFor(vn, vec.root, vec.shift, i)].arr, i % BRANCH_FACTOR)

\* draft[i] read that marks the draft modified when it hands out a nested
\* draft
AGet_Touch(i) ==
  /\ draft.live /\ draft.kind = "arr"
  /\ opsLeft > 0
  /\ i >= 0 /\ i < draft.vec.count
  /\ LET value == vecGetCached(vnodes, tails, draft.vec, i)
         log == Append(draft.recipe, Op("get", i, "", 0))
     IN IF MapHas(draft.proxies, i) THEN
          /\ got' = ProxyRef(MapGet(draft.proxies, i))
          /\ nps' = nps
          /\ draft' = [draft EXCEPT !.recipe = log]
        ELSE IF IsObj(value) THEN
          /\ nps' = Append(nps, NestedProxyState(ObjId(value), 0))
          /\ got' = ProxyRef(Len(nps) + 1)
          /\ draft' = [draft EXCEPT
                         !.proxies = MapSet(@, i, Len(nps) + 1),
                         !.modified = TRUE,
                         !.recipe = log]
        ELSE
          /\ got' = value
          /\ nps' = nps
          /\ draft' = [draft EXCEPT !.recipe = log]
  /\ opsLeft' = opsLeft - 1
  /\ UNCHANGED <<hnodes, hvars, vnodes, tails, objs, handles, ret,
                 nextOwner, callsLeft>>

\* draft[i] read
AGet(i) ==
  /\ draft.live /\ draft.kind = "arr"
  /\ opsLeft > 0
  /\ i >= 0 /\ i < draft.vec.count
  /\ LET value == vecGetCached(vnodes, tails, draft.vec, i)
         log == Append(draft.recipe, Op("get", i, "", 0))
     IN IF MapHas(draft.proxies, i) THEN
          /\ got' = ProxyRef(MapGet(draft.proxies, i))
          /\ nps' = nps
          /\ draft' = [draft EXCEPT !.recipe = log]
        ELSE IF IsObj(value) THEN
          /\ nps' = Append(nps, NestedProxyState(ObjId(value), 0))
          /\ got' = ProxyRef(Len(nps) + 1)
          /\ draft' = [draft EXCEPT
                         !.proxies = MapSet(@, i, Len(nps) + 1),
                         !.recipe = log]
        ELSE
          /\ got' = value
          /\ nps' = nps
          /\ draft' = [draft EXCEPT !.recipe = log]
  /\ opsLeft' = opsLeft - 1
  /\ UNCHANGED <<hnodes, hvars, vnodes, tails, objs, handles, ret,
                 nextOwner, callsLeft>>

\* read of field f of the nested draft obtained last
NGet(f) ==
  /\ draft.live
  /\ opsLeft > 0
  /\ got >= 1000
  /\ LET Read(r) ==
           /\ nps' = r.w.nps
           /\ got' = r.val
     IN Read(nestedGet(World, got - 1000, f))
  /\ draft' = [draft EXCEPT
                 !.recipe = Append(@, Op("nget", got - 1000, f, 0))]
  /\ opsLeft' = opsLeft - 1
  /\ UNCHANGED <<hnodes, hvars, vnodes, tails, objs, handles, ret,
                 nextOwner, callsLeft>>

\* assignment to field f of the nested draft obtained last
NAssign(f, v) ==
  /\ draft.live
  /\ opsLeft > 0
  /\ got >= 1000
  /\ LET Written(w) ==
           /\ objs' = w.objs
           /\ nps' = w.nps
           /\ draft' = [draft EXCEPT
                          !.modified = w.modified,
                          !.recipe = Append(@, Op("nset", got - 1000, f, v))]
     IN Written(nestedSet(World, got - 1000, f, v))
  /\ opsLeft' = opsLeft - 1
  /\ UNCHANGED <<hnodes, hvars, vnodes, tails, handles, ret, got,
                 nextOwner, callsLeft>>

\* produceArray lines 1436-1449: write back the nested drafts, in the
\* order the proxies Map holds them; err: vecAssoc raised its IndexError
RECURSIVE FinalizeProxies(_, _, _, _, _)
FinalizeProxies(st, proxies, np, owner, i) ==
  IF i > Len(proxies) \/ st.err THEN st
  ELSE
    LET idx == proxies[i].k
        Stored(e, r) ==
          FinalizeProxies([vn |-> r.vn, tl |-> r.tl, objs |-> e.objs,
                           vec |-> r.vec, modified |-> TRUE,
                           err |-> r.err],
                          proxies, np, owner, i + 1)
        Final(e) ==
          IF e.val # vecGet(st.vn, st.tl, st.vec, idx)
            THEN Stored(e, vecAssoc(st.vn, st.tl, st.vec, owner, idx,
                                    e.val))
            ELSE FinalizeProxies([st EXCEPT !.objs = e.objs], proxies, np,
                                 owner, i + 1)
    IN Final(extractNestedValue(st.objs, np, proxies[i].p))

\* how the last top-level operation ended
Outcome(status, by, base, result, before, native, recipe) ==
  [status |-> status, by |-> by, base |-> base, result |-> result,
   before |-> before, native |-> native, recipe |-> recipe,
   calls |-> draft.calls, given |-> draft.given]

\* produceArray that also stores the draft's vec in the state of base
AEnd_WriteBase ==
  /\ draft.live /\ draft.kind = "arr"
  /\ LET Return(fin) ==
           /\ vnodes' = fin.vn
           /\ tails' = fin.tl
           /\ objs' = fin.objs
           /\ handles' = IF ~fin.err /\ fin.modified
                           THEN Append([handles EXCEPT
                                          ![draft.base].vec = fin.vec],
                                       ArrHandle(TRUE, fin.vec, <<>>,
                                                 draft.base, draft.before,
                                                 draft.recipe))
                           ELSE handles
           /\ ret' = Outcome(IF fin.err THEN "threw" ELSE "returned",
                             IF fin.err THEN "IndexError" ELSE "produce",
                             draft.base,
                             IF fin.err THEN 0
                             ELSE IF ~fin.modified THEN draft.base
                             ELSE Len(handles) + 1,
                             draft.before, draft.native, draft.recipe)
     IN Return(FinalizeProxies([vn |-> vnodes, tl |-> tails, objs |-> objs,
                                vec |-> draft.vec,
                                modified |-> draft.modified,
                                err |-> FALSE],
                               draft.proxies, nps, draft.owner, 1))
  /\ draft' = NoDraft
  /\ nps' = <<>>
  /\ got' = 0
  /\ UNCHANGED <<hnodes, hvars, nextOwner, opsLeft, callsLeft>>

\* the recipe returns: produceArray from line 1436 to its return
AEnd ==
  /\ draft.live /\ draft.kind = "arr"
  /\ LET Return(fin) ==
           /\ vnodes' = fin.vn
           /\ tails' = fin.tl
           /\ objs' = fin.objs
           /\ handles' = IF ~fin.err /\ fin.modified
                           THEN Append(handles,
                                       ArrHandle(TRUE, fin.vec, <<>>,
                                                 draft.base, draft.before,
                                                 draft.recipe))
                           ELSE handles
           /\ ret' = Outcome(IF fin.err THEN "threw" ELSE "returned",
                             IF fin.err THEN "IndexError" ELSE "produce",
                             draft.base,
                             IF fin.err THEN 0
                             ELSE IF ~fin.modified THEN draft.base
                             ELSE Len(handles) + 1,
                             draft.before, draft.native, draft.recipe)
     IN Return(FinalizeProxies([vn |-> vnodes, tl |-> tails, objs |-> objs,
                                vec |-> draft.vec,
                                modified |-> draft.modified,
                                err |-> FALSE],
                               draft.proxies, nps, draft.owner, 1))
  /\ draft' = NoDraft
  /\ nps' = <<>>
  /\ got' = 0
  /\ UNCHANGED <<hnodes, hvars, nextOwner, opsLeft, callsLeft>>

\* the recipe throws: produce has no handler, the error reaches the caller
AThrow ==
  /\ draft.live
  /\ ret' = Outcome("threw", "recipe", draft.base, 0, draft.before,
                    draft.native, draft.recipe)
  /\ draft' = NoDraft
  /\ nps' = <<>>
  /\ got' = 0
  /\ UNCHANGED <<hnodes, hvars, vnodes, tails, objs, handles, nextOwner,
                 opsLeft, callsLeft>>

\* push on a managed array outside any produce call (owner undefined)
ADirectPush(h, v) ==
  /\ ~draft.live
  /\ opsLeft > 0
  /\ handles[h].kind = "arr" /\ handles[h].managed
  /\ LET Pushed(r) ==
           /\ vnodes' = r.vn
           /\ tails' = r.tl
           /\ handles' = [handles EXCEPT ![h].vec = r.vec,
                                         ![h].direct = @ + 1]
     IN Pushed(vecPush(vnodes, tails, handles[h].vec, 0, v))
  /\ ret' = Outcome("returned", "push", h, h, Observed(h),
                    Append(ArrContent(h), v), <<>>)
  /\ opsLeft' = opsLeft - 1
  /\ UNCHANGED <<hnodes, hvars, objs, nps, draft, got, nextOwner, callsLeft>>

\* for (const item of items) vec = vecPush(vec, owner, item)
RECURSIVE PushAll(_, _, _, _, _)
PushAll(vn, tl, vec, owner, items) ==
  IF items = <<>> THEN [vn |-> vn, tl |-> tl, vec |-> vec]
  ELSE LET Rest(r) == PushAll(r.vn, r.tl, r.vec, owner, Tail(items))
       IN Rest(vecPush(vn, tl, vec, owner, Head(items)))

\* Array.prototype.shift / unshift / splice on a native array; count is
\* <<>> for splice(start) and <<n>> for splice(start, n, ...items)
NativeStart(len, start) ==
  IF start < 0 THEN (IF len + start > 0 THEN len + start ELSE 0)
  ELSE IF start < len THEN start ELSE len
NativeCount(len, from, count) ==
  IF count = <<>> THEN len - from
  ELSE IF count[1] < 0 THEN 0
  ELSE IF count[1] < len - from THEN count[1] ELSE len - from
NativeSplice(xs, start, count, items) ==
  LET from == NativeStart(Len(xs), start)
      dc == NativeCount(Len(xs), from, count)
  IN [arr |-> SubSeq(xs, 1, from) \o items
                \o SubSeq(xs, from + dc + 1, Len(xs)),
      deleted |-> SubSeq(xs, from + 1, from + dc)]

\* draft.shift() that cuts the last element instead of the first
AShift_DropsLast ==
  /\ draft.live /\ draft.kind = "arr"
  /\ opsLeft > 0
  /\ LET Shifted(r) ==
           /\ vnodes' = r.vn
           /\ tails' = r.tl
           /\ draft' = [draft EXCEPT
                          !.vec = r.vec, !.modified = TRUE,
                          !.proxies = <<>>,
                          !.native = Tail(@),
                          !.recipe = Append(@, Op("shift", 0, "",
                                                  draft.native[1]))]
     IN IF draft.vec.count = 0
          THEN /\ draft' = [draft EXCEPT
                              !.recipe = Append(@, Op("shift", 0, "", UNDEF))]
               /\ UNCHANGED <<vnodes, tails>>
          ELSE Shifted(vecSlice(vnodes, tails, draft.vec, draft.owner, 0,
                                draft.vec.count - 1))
  /\ got' = vecGetCached(vnodes, tails, draft.vec, 0)
  /\ opsLeft' = opsLeft - 1
  /\ UNCHANGED <<hnodes, hvars, objs, nps, handles, ret, nextOwner, callsLeft>>

\* draft.shift()
AShift ==
  /\ draft.live /\ draft.kind = "arr"
  /\ opsLeft > 0
  /\ LET Shifted(r) ==
           /\ vnodes' = r.vn
           /\ tails' = r.tl
           /\ draft' = [draft EXCEPT
                          !.vec = r.vec, !.modified = TRUE,
                          !.proxies = <<>>,
                          !.native = Tail(@),
                          !.recipe = Append(@, Op("shift", 0, "",
                                                  draft.native[1]))]
     IN IF draft.vec.count = 0
          THEN /\ draft' = [draft EXCEPT
                              !.recipe = Append(@, Op("shift", 0, "", UNDEF))]
               /\ UNCHANGED <<vnodes, tails>>
          ELSE Shifted(vecSlice(vnodes, tails, draft.vec, draft.owner, 1,
                                draft.vec.count))
  /\ got' = vecGetCached(vnodes, tails, draft.vec, 0)
  /\ opsLeft' = opsLeft - 1
  /\ UNCHANGED <<hnodes, hvars, objs, nps, handles, ret, nextOwner, callsLeft>>

\* draft.unshift(...items)
AUnshift(items) ==
  /\ draft.live /\ draft.kind = "arr"
  /\ opsLeft > 0
  /\ LET Joined(r) ==
           /\ vnodes' = r.vn
           /\ tails' = r.tl
           /\ draft' = [draft EXCEPT
                          !.vec = r.vec, !.modified = TRUE,
                          !.proxies = <<>>,
                          !.native = items \o @,
                          !.recipe = Append(@, Op("unshift", 0, "", items))]
           /\ got' = r.vec.count
         Prefixed(p) ==
           Joined(vecConcat(p.vn, p.tl, p.vec, draft.vec, nextOwner + 1))
     IN IF items = <<>>
          THEN /\ draft' = [draft EXCEPT
                              !.recipe = Append(@, Op("unshift", 0, "",
                                                      items))]
               /\ got' = draft.vec.count
               /\ UNCHANGED <<vnodes, tails>>
          ELSE Prefixed(PushAll(vnodes, tails, emptyVec, nextOwner + 1,
                                items))
  /\ nextOwner' = IF items = <<>> THEN nextOwner ELSE nextOwner + 1
  /\ opsLeft' = opsLeft - 1
  /\ UNCHANGED <<hnodes, hvars, objs, nps, handles, ret, callsLeft>>

\* s and dc of splice: start < 0 ? Math.max(len + start, 0)
\* : Math.min(start, len), and deleteCount === undefined ? len - s
\* : Math.max(0, Math.min(deleteCount, len - s))
spliceStart(len, start) ==
  IF start < 0 THEN (IF len + start > 0 THEN len + start ELSE 0)
  ELSE IF start < len THEN start ELSE len
\* dc without the Math.max(0, ...)
spliceCount_NoFloor(len, s, count) ==
  IF count = <<>> THEN len - s
  ELSE IF count[1] < len - s THEN count[1] ELSE len - s

spliceCount(len, s, count) ==
  IF count = <<>> THEN len - s
  ELSE LET least == IF count[1] < len - s THEN count[1] ELSE len - s
       IN IF least > 0 THEN least ELSE 0

\* draft.splice(start, ...count, ...items)
ASplice(start, count, items) ==
  /\ draft.live /\ draft.kind = "arr"
  /\ opsLeft > 0
  /\ count = <<>> => items = <<>>
  /\ LET len == draft.vec.count
         s == spliceStart(len, start)
         dc == spliceCount(len, s, count)
         owner == nextOwner + 1
         e == [vn |-> vnodes, tl |-> tails, vec |-> emptyVec]
         Spliced(r) ==
           /\ vnodes' = r.vn
           /\ tails' = r.tl
           /\ draft' = [draft EXCEPT
                          !.vec = r.vec, !.modified = TRUE,
                          !.proxies = <<>>,
                          !.native = NativeSplice(@, start, count, items).arr,
                          !.recipe = Append(@, Op("splice", start, "",
                                                  <<count, items>>))]
         \* j: newVec once the middle has joined it
         WithRight(j, right) ==
           Spliced(IF right.count > 0
                     THEN vecConcat(j.vn, j.tl, j.vec, right, owner)
                     ELSE j)
         WithMiddle(l, m, right) ==
           WithRight(IF m.vec.count > 0
                       THEN vecConcat(m.vn, m.tl, l.vec, m.vec, owner)
                       ELSE [vn |-> m.vn, tl |-> m.tl, vec |-> l.vec],
                     right)
         Middle(l, r) ==
           WithMiddle(l, PushAll(r.vn, r.tl, emptyVec, owner, items), r.vec)
         Right(l) ==
           Middle(l, IF s + dc < len
                       THEN vecSlice(l.vn, l.tl, draft.vec, owner, s + dc, len)
                       ELSE [vn |-> l.vn, tl |-> l.tl, vec |-> emptyVec])
     IN Right(IF s > 0 THEN vecSlice(vnodes, tails, draft.vec, owner, 0, s)
                       ELSE e)
  /\ got' = LET len == draft.vec.count
                s == spliceStart(len, start)
                dc == spliceCount(len, s, count)
            IN [i \in 1..dc |->
                  vecGetCached(vnodes, tails, draft.vec, s + i - 1)]
  /\ nextOwner' = nextOwner + 1
  /\ opsLeft' = opsLeft - 1
  /\ UNCHANGED <<hnodes, hvars, objs, nps, handles, ret, callsLeft>>

\* values a recipe writes, and values pushed outside produce
PVals == {9}
DVals == {7}

Prims(n) == [i \in 1..n |-> ((i - 1) % 5) + 1]

\* the records the bases hold: a flat one, one holding a record, and the
\* record it holds
SeedObjs ==
  << Rec([a |-> 1, b |-> 2]), Rec([a |-> 3, b |-> ObjRef(3)]),
     Rec([a |-> 4, b |-> 4]) >>

DraftCount == IF draft.live /\ draft.kind = "arr" THEN draft.vec.count ELSE 0

-----------------------------------------------------------------------------
(* produce over Maps and Sets (createMapProxy, produceMap, createSetProxy, *)
(* produceSet).  A Set is a HAMT from its members to true.                 *)

Bool(b) == IF b THEN 1 ELSE 0

\* kind: "map" or "set".  entries: the content of a native base; for a
\* managed one, the native Map or Set it was made from with every write of
\* the recipes since applied to it (twin: no recipe did anything else)
MapHandle(kind, managed, map, ordered, ord, entries, twin, from, before, recipe) ==
  [kind |-> kind, managed |-> managed, map |-> map, ordered |-> ordered,
   ord |-> ord, entries |-> entries, twin |-> twin, from |-> from,
   before |-> before, recipe |-> recipe, direct |-> 0]

\* HMapState / HSetState of a draft, with the recipe run so far and the
\* native copy of base
MapDraft(h, map, ordered, ord, owner) ==
  [live |-> TRUE, kind |-> handles[h].kind, base |-> h, map |-> map,
   ordered |-> ordered, ord |-> ord, owner |-> owner, modified |-> FALSE,
   proxies |-> <<>>, before |-> Observed(h),
   native |-> handles[h].entries, recipe |-> <<>>, calls |-> 0, given |-> 0]

IsMapDraft == draft.live /\ draft.kind \in {"map", "set"}

\* produceMap / produceSet up to the call of the recipe
MBegin(h) ==
  /\ ~draft.live
  /\ handles[h].kind \in {"map", "set"}
  /\ callsLeft > 0
  /\ opsLeft > 0
  /\ LET Fresh(m) ==
           /\ hnodes' = m.heap
           /\ draft' = recipeCall(MapDraft(h, m.map, FALSE, orderEmpty,
                                           nextOwner + 2), 0)
     IN IF handles[h].managed
          THEN /\ hnodes' = hnodes
               /\ draft' = recipeCall(MapDraft(h, handles[h].map,
                                               handles[h].ordered,
                                               handles[h].ord,
                                               nextOwner + 2), 0)
          ELSE Fresh(hamtFromMap(hnodes, handles[h].entries, nextOwner + 1))
  /\ nextOwner' = nextOwner + 2
  /\ callsLeft' = callsLeft - 1
  /\ nps' = <<>>
  /\ got' = 0
  /\ UNCHANGED <<hvars, vnodes, tails, objs, handles, ret, opsLeft>>

\* draft.get(k) of a Map draft
MGet(k) ==
  /\ draft.live /\ draft.kind = "map"
  /\ opsLeft > 0
  /\ LET raw == hamtGet(hnodes, draft.map, k)
         log == Append(draft.recipe, Op("get", k, "", 0))
     IN IF MapHas(draft.proxies, k) THEN
          /\ got' = ProxyRef(MapGet(draft.proxies, k))
          /\ nps' = nps
          /\ draft' = [draft EXCEPT !.recipe = log]
        ELSE IF IsObj(raw) THEN
          /\ nps' = Append(nps, NestedProxyState(ObjId(raw), 0))
          /\ got' = ProxyRef(Len(nps) + 1)
          /\ draft' = [draft EXCEPT
                         !.proxies = MapSet(@, k, Len(nps) + 1),
                         !.recipe = log]
        ELSE
          /\ got' = raw
          /\ nps' = nps
          /\ draft' = [draft EXCEPT !.recipe = log]
  /\ opsLeft' = opsLeft - 1
  /\ UNCHANGED <<hnodes, hvars, vnodes, tails, objs, handles, ret,
                 nextOwner, callsLeft>>

\* draft.has(k) of a Map or Set draft
MHas(k) ==
  /\ IsMapDraft
  /\ opsLeft > 0
  /\ got' = Bool(hamtHas(hnodes, draft.map, k))
  /\ draft' = [draft EXCEPT !.recipe = Append(@, Op("has", k, "", 0))]
  /\ opsLeft' = opsLeft - 1
  /\ UNCHANGED <<hnodes, hvars, vnodes, tails, objs, nps, handles, ret,
                 nextOwner, callsLeft>>

\* draft.set(k, v) of a Map draft
MSet(k, v) ==
  /\ draft.live /\ draft.kind = "map"
  /\ opsLeft > 0
  /\ LET Stored(r, o) ==
           /\ hnodes' = o.st.hn
           /\ vnodes' = o.st.vn
           /\ tails' = o.st.tl
           /\ draft' = [draft EXCEPT
                          !.map = r.map, !.ord = o.ord, !.modified = TRUE,
                          !.proxies = MapDelete(@, k),
                          !.native = NSet(@, k, v),
                          !.recipe = Append(@, Op("set", k, "", v))]
         Ordered(had, r, st) ==
           Stored(r,
                  IF ~draft.ordered THEN [st |-> st, ord |-> draft.ord]
                  ELSE IF had
                    THEN orderUpdateValue(st, draft.ord, draft.owner, k, v)
                    ELSE orderAppendWithValue(st, draft.ord, draft.owner, k,
                                              v))
         Set(had, r) ==
           Ordered(had, r, [hn |-> r.heap, vn |-> vnodes, tl |-> tails])
     IN Set(hamtHas(hnodes, draft.map, k),
            hamtSet(hnodes, draft.map, draft.owner, k, v))
  /\ opsLeft' = opsLeft - 1
  /\ UNCHANGED <<hvars, objs, nps, handles, ret, got, nextOwner, callsLeft>>

\* draft.add(k) of a Set draft
SAdd(k) ==
  /\ draft.live /\ draft.kind = "set"
  /\ opsLeft > 0
  /\ LET Stored(had, r, o) ==
           /\ hnodes' = o.st.hn
           /\ vnodes' = o.st.vn
           /\ tails' = o.st.tl
           /\ draft' = [draft EXCEPT
                          !.map = r.map, !.ord = o.ord,
                          !.modified = IF ~r.same /\ ~had THEN TRUE ELSE @,
                          !.native = NSet(@, k, 1),
                          !.recipe = Append(@, Op("add", k, "", 1))]
         Ordered(had, r, st) ==
           Stored(had, r,
                  IF ~r.same /\ ~had /\ draft.ordered
                    THEN orderAppend(st, draft.ord, draft.owner, k)
                    ELSE [st |-> st, ord |-> draft.ord])
         Add(had, r) ==
           Ordered(had, r, [hn |-> r.heap, vn |-> vnodes, tl |-> tails])
     IN Add(hamtHas(hnodes, draft.map, k),
            hamtSet(hnodes, draft.map, draft.owner, k, 1))
  /\ opsLeft' = opsLeft - 1
  /\ UNCHANGED <<hvars, objs, nps, handles, ret, got, nextOwner, callsLeft>>

\* the delete method of a Map or Set draft on its state: the store, map
\* and order index it leaves, and what it returns
draftDelete(st, map, ordered, ord, owner, k) ==
  LET Result(r, removed, o) ==
        [st |-> o.st, map |-> r.map, ord |-> o.ord, removed |-> removed]
      Ordered(r, removed, st1) ==
        Result(r, removed,
               IF removed /\ ordered
                 THEN orderDelete(st1, ord, owner, k)
                 ELSE [st |-> st1, ord |-> ord])
      Delete(r) ==
        Ordered(r, r.map.size # map.size, [st EXCEPT !.hn = r.heap])
  IN Delete(hamtDelete(st.hn, map, owner, k))

\* draft.delete(k) that reports the removal but keeps the draft's map
MDelete_KeepsMap(k) ==
  /\ IsMapDraft
  /\ opsLeft > 0
  /\ LET Deleted(d) ==
           /\ hnodes' = d.st.hn
           /\ vnodes' = d.st.vn
           /\ tails' = d.st.tl
           /\ draft' = [draft EXCEPT
                          !.ord = d.ord,
                          !.modified = IF d.removed THEN TRUE ELSE @,
                          !.proxies = IF d.removed THEN MapDelete(@, k)
                                                   ELSE @,
                          !.native = NDelete(@, k),
                          !.recipe = Append(@,
                             Op("delete", k,
                                IF NHas(draft.native, k) THEN "had"
                                                         ELSE "absent",
                                Bool(d.removed)))]
           /\ got' = Bool(d.removed)
     IN Deleted(draftDelete(Store, draft.map, draft.ordered, draft.ord,
                            draft.owner, k))
  /\ opsLeft' = opsLeft - 1
  /\ UNCHANGED <<hvars, objs, nps, handles, ret, nextOwner, callsLeft>>

\* draft.delete(k) of a Map or Set draft
MDelete(k) ==
  /\ IsMapDraft
  /\ opsLeft > 0
  /\ LET Deleted(d) ==
           /\ hnodes' = d.st.hn
           /\ vnodes' = d.st.vn
           /\ tails' = d.st.tl
           /\ draft' = [draft EXCEPT
                          !.map = d.map, !.ord = d.ord,
                          !.modified = IF d.removed THEN TRUE ELSE @,
                          !.proxies = IF d.removed THEN MapDelete(@, k)
                                                   ELSE @,
                          !.native = NDelete(@, k),
                          !.recipe = Append(@,
                             Op("delete", k,
                                IF NHas(draft.native, k) THEN "had"
                                                         ELSE "absent",
                                Bool(d.removed)))]
           /\ got' = Bool(d.removed)
     IN Deleted(draftDelete(Store, draft.map, draft.ordered, draft.ord,
                            draft.owner, k))
  /\ opsLeft' = opsLeft - 1
  /\ UNCHANGED <<hvars, objs, nps, handles, ret, nextOwner, callsLeft>>

\* draft.clear() of a Map or Set draft
MClear ==
  /\ IsMapDraft
  /\ opsLeft > 0
  /\ draft' = IF draft.map.size = 0
                THEN [draft EXCEPT !.native = <<>>,
                                   !.recipe = Append(@, Op("clear", 0, "", 0))]
                ELSE [draft EXCEPT
                        !.map = hamtEmpty,
                        !.ord = IF draft.ordered THEN orderEmpty ELSE @,
                        !.modified = TRUE,
                        !.proxies = <<>>,
                        !.native = <<>>,
                        !.recipe = Append(@, Op("clear", 0, "", 0))]
  /\ opsLeft' = opsLeft - 1
  /\ UNCHANGED <<hnodes, hvars, vnodes, tails, objs, nps, handles, ret, got,
                 nextOwner, callsLeft>>

\* a recipe that only read, or wrote through the Map / Set draft itself
NoNestedWrite(recipe) == \A i \in 1..Len(recipe) : recipe[i].op # "nset"

\* produceMap lines 258-272: write back the nested drafts of the values
RECURSIVE FinalizeValues(_, _, _, _, _)
FinalizeValues(st, proxies, np, owner, i) ==
  IF i > Len(proxies) THEN st
  ELSE
    LET key == proxies[i].k
        Stored(e, r) ==
          FinalizeValues([hn |-> r.heap, objs |-> e.objs, map |-> r.map,
                          modified |-> TRUE],
                         proxies, np, owner, i + 1)
        Final(e) ==
          IF hamtGet(st.hn, st.map, key) # e.val
            THEN Stored(e, hamtSet(st.hn, st.map, owner, key, e.val))
            ELSE FinalizeValues([st EXCEPT !.objs = e.objs], proxies, np,
                                owner, i + 1)
    IN Final(extractNestedValue(st.objs, np, proxies[i].p))

\* the outcome o of a produce call, with the state d of the draft the
\* recipe was given: the draft proxy and its state outlive the call when
\* the recipe stored the draft
Retained(o, d) ==
  [x \in DOMAIN o \cup {"kept"} |-> IF x = "kept" THEN d ELSE o[x]]

\* the recipe returns: produceMap from line 258, produceSet from its check
\* of modified
MEnd ==
  /\ IsMapDraft
  /\ LET Return(fin) ==
           /\ hnodes' = fin.hn
           /\ objs' = fin.objs
           /\ handles' = IF fin.modified
                           THEN Append(handles,
                                  MapHandle(draft.kind, TRUE, fin.map,
                                            draft.ordered, draft.ord,
                                            draft.native,
                                            handles[draft.base].twin
                                              /\ NoNestedWrite(draft.recipe),
                                            draft.base, draft.before,
                                            draft.recipe))
                           ELSE handles
           /\ ret' = Retained(Outcome("returned", "produce", draft.base,
                                      IF ~fin.modified THEN draft.base
                                                       ELSE Len(handles) + 1,
                                      draft.before, draft.native,
                                      draft.recipe),
                              [draft EXCEPT !.map = fin.map,
                                            !.modified = fin.modified])
     IN Return(FinalizeValues([hn |-> hnodes, objs |-> objs,
                               map |-> draft.map,
                               modified |-> draft.modified],
                              draft.proxies, nps, draft.owner, 1))
  /\ draft' = NoDraft
  /\ nps' = <<>>
  /\ got' = 0
  /\ UNCHANGED <<hvars, vnodes, tails, nextOwner, opsLeft, callsLeft>>

-----------------------------------------------------------------------------
(* produce over records (produceObject): the draft is a nested draft       *)

\* obj: the plain record; managed: the handle is the facade pura() made
RecHandle(managed, obj, from, before, recipe) ==
  [kind |-> "rec", managed |-> managed, obj |-> obj, from |-> from,
   before |-> before, recipe |-> recipe, direct |-> 0]

\* a value that is no array, Map, Set or object: a primitive
PlainHandle(val) ==
  [kind |-> "plain", managed |-> FALSE, val |-> val, from |-> 0,
   before |-> <<>>, recipe |-> <<>>, direct |-> 0]

\* the root draft is nps[1]
RecDraft(h) ==
  [live |-> TRUE, kind |-> "rec", base |-> h, owner |-> 0,
   modified |-> FALSE, proxies |-> <<>>, before |-> Observed(h),
   native |-> <<>>, recipe |-> <<>>, calls |-> 0, given |-> 0]

\* produceObject up to the call of the recipe
RBegin(h) ==
  /\ ~draft.live
  /\ handles[h].kind = "rec"
  /\ callsLeft > 0
  /\ opsLeft > 0
  /\ draft' = recipeCall(RecDraft(h), 0)
  /\ nps' = << NestedProxyState(ObjId(handles[h].obj), 0) >>
  /\ got' = ProxyRef(1)
  /\ callsLeft' = callsLeft - 1
  /\ UNCHANGED <<hnodes, hvars, vnodes, tails, objs, handles, ret,
                 nextOwner, opsLeft>>

\* the recipe returns: produceObject lines 1934-1940
REnd ==
  /\ draft.live /\ draft.kind = "rec"
  /\ LET Return(changed, e) ==
           /\ objs' = IF changed THEN e.objs ELSE objs
           /\ handles' = IF changed
                           THEN Append(handles,
                                       RecHandle(TRUE, e.val, draft.base,
                                                 draft.before, draft.recipe))
                           ELSE handles
           /\ ret' = Outcome("returned", "produce", draft.base,
                             IF changed THEN Len(handles) + 1
                                        ELSE draft.base,
                             draft.before, draft.native, draft.recipe)
     IN Return(isProxyModified(nps, 1), extractNestedValue(objs, nps, 1))
  /\ draft' = NoDraft
  /\ nps' = <<>>
  /\ got' = 0
  /\ UNCHANGED <<hnodes, hvars, vnodes, tails, nextOwner, opsLeft, callsLeft>>

\* the recipe takes the draft it was given in hand again
RRoot ==
  /\ draft.live /\ draft.kind = "rec"
  /\ got # ProxyRef(1)
  /\ got' = ProxyRef(1)
  /\ UNCHANGED <<hnodes, hvars, vnodes, tails, objs, nps, handles, draft,
                 ret, nextOwner, opsLeft, callsLeft>>

-----------------------------------------------------------------------------
(* Programs: one base value, then produce calls on it and on what they     *)
(* returned.                                                               *)

\* the value the program starts with: native, or what pura(),
\* puraOrderedMap() or puraOrderedSet() made of it
Seed(kind, managed, ordered, data) ==
  [kind |-> kind, managed |-> managed, ordered |-> ordered, data |-> data]

\* the stores and the handle after the seed was made
Built(seed) ==
  IF seed.kind = "arr" THEN
    LET Managed(r) ==
          [hn |-> <<>>, vn |-> r.vn, tl |-> r.tl,
           handle |-> ArrHandle(TRUE, r.vec, <<>>, 0, <<>>, <<>>)]
    IN IF seed.managed
         THEN Managed(vecFromArray(EmptyVNodes, EmptyTails, seed.data))
         ELSE [hn |-> <<>>, vn |-> EmptyVNodes, tl |-> EmptyTails,
               handle |-> ArrHandle(FALSE, emptyVec, seed.data, 0, <<>>,
                                    <<>>)]
  ELSE IF seed.kind = "rec" THEN
    [hn |-> <<>>, vn |-> EmptyVNodes, tl |-> EmptyTails,
     handle |-> RecHandle(seed.managed, seed.data, 0, <<>>, <<>>)]
  ELSE IF seed.kind = "plain" THEN
    [hn |-> <<>>, vn |-> EmptyVNodes, tl |-> EmptyTails,
     handle |-> PlainHandle(seed.data)]
  ELSE IF ~seed.managed THEN
    [hn |-> <<>>, vn |-> EmptyVNodes, tl |-> EmptyTails,
     handle |-> MapHandle(seed.kind, FALSE, hamtEmpty, FALSE, orderEmpty,
                          seed.data, TRUE, 0, <<>>, <<>>)]
  ELSE
    LET Made(m, o) ==
          [hn |-> o.st.hn, vn |-> o.st.vn, tl |-> o.st.tl,
           handle |-> MapHandle(seed.kind, TRUE, m.map, seed.ordered, o.ord,
                                seed.data, TRUE, 0, <<>>, <<>>)]
        Ordered(m, st) ==
          Made(m,
               IF ~seed.ordered THEN [st |-> st, ord |-> orderEmpty]
               ELSE IF seed.kind = "map"
                 THEN orderFromBase(st, seed.data, 2)
                 ELSE orderFromSetBase(st, NKeys(seed.data), 2))
        Map(m) ==
          Ordered(m, [hn |-> m.heap, vn |-> EmptyVNodes, tl |-> EmptyTails])
    IN Map(hamtFromMap(<<>>, seed.data, 1))

ProgInit(seeds, maxOps, maxCalls) ==
  /\ HIdle
  /\ \E seed \in seeds :
       LET Start(b) ==
             /\ hnodes = b.hn
             /\ vnodes = b.vn
             /\ tails = b.tl
             /\ handles = << b.handle >>
       IN Start(Built(seed))
  /\ nextOwner = 2
  /\ objs = SeedObjs
  /\ nps = <<>>
  /\ draft = NoDraft
  /\ ret = NoRet
  /\ got = 0
  /\ opsLeft = maxOps
  /\ callsLeft = maxCalls

Handles == 1..Len(handles)

\* arrays of primitives: recipes of push, pop and index assignment, and
\* pushes outside produce
ArrSeeds ==
  { Seed("arr", TRUE, FALSE, Prims(2)), Seed("arr", FALSE, FALSE, Prims(2)),
    Seed("arr", TRUE, FALSE, Prims(32)),
    Seed("arr", FALSE, FALSE, Prims(64)),
    Seed("arr", TRUE, FALSE, <<1, UNDEF>>) }

AInit == ProgInit(ArrSeeds, MaxArrOps, MaxChain)

ANext ==
  \/ \E h \in Handles : ABegin(h)
  \/ \E v \in PVals : APush(v)
  \/ APop
  \/ \E i \in AIdx(DraftCount), v \in PVals : AAssign(i, v)
  \/ AEnd
  \/ \E h \in Handles, v \in DVals : ADirectPush(h, v)

SpecArr == AInit /\ [][ANext]_vars

\* vecConcat and vecSlice on Vecs built by vecFromArray, and arrays under
\* recipes of shift, unshift and splice
SeqSeeds ==
  { Seed("arr", TRUE, FALSE, Prims(2)), Seed("arr", FALSE, FALSE, <<>>),
    Seed("arr", FALSE, FALSE, Prims(33)), Seed("arr", TRUE, FALSE, Prims(70)) }

SeqLens == {0, 2, 33, 70, 1056}
SeqItems == { <<>>, <<9, 8>> }
SeqStarts == {0 - 1, 1, 40}
SeqCounts == { <<>>, <<0 - 1>>, <<1>> }

SInit == VStart(SeqLens, {2}) \/ ProgInit(SeqSeeds, MaxSeqOps, MaxSeqCalls)

SNext ==
  \/ \E ys \in VSeqs, front \in BOOLEAN : VConcat(ys, front)
  \/ \E lo \in VCuts(vs.vec), hi \in VCuts(vs.vec) : VSlice(lo, hi)
  \/ \E h \in Handles : ABegin(h)
  \/ AShift
  \/ \E items \in SeqItems : AUnshift(items)
  \/ \E start \in SeqStarts, count \in SeqCounts, items \in SeqItems :
       ASplice(start, count, items)
  \/ AEnd

SpecSeq == SInit /\ [][SNext]_vars

\* bases of every kind that hold records: recipes that read, write and
\* work on the nested drafts the reads hand out
MapData == << <<1, ObjRef(1)>>, <<3, 5>>, <<2, ObjRef(2)>> >>
SetData == << <<3, 1>>, <<1, 1>> >>

ProduceSeeds ==
  { Seed("arr", m, FALSE, <<ObjRef(1), 5, ObjRef(2)>>) : m \in BOOLEAN }
  \cup { Seed("map", m, FALSE, MapData) : m \in BOOLEAN }
  \cup { Seed("map", TRUE, TRUE, MapData) }
  \cup { Seed("set", m, FALSE, SetData) : m \in BOOLEAN }
  \cup { Seed("rec", m, FALSE, ObjRef(2)) : m \in BOOLEAN }

PInit == ProgInit(ProduceSeeds, MaxOps, MaxCalls)

PNext ==
  \/ \E h \in Handles : ABegin(h)
  \/ \E v \in PVals : APush(v)
  \/ APop
  \/ \E i \in AIdx(DraftCount), v \in PVals : AAssign(i, v)
  \/ \E i \in 0..(DraftCount - 1) : AGet(i)
  \/ AEnd
  \/ \E h \in Handles : MBegin(h)
  \/ \E k \in MKeys : MGet(k)
  \/ \E k \in MKeys : MHas(k)
  \/ \E k \in MKeys, v \in PVals : MSet(k, v)
  \/ \E k \in MKeys : SAdd(k)
  \/ \E k \in MKeys : MDelete(k)
  \/ MClear
  \/ MEnd
  \/ \E h \in Handles : RBegin(h)
  \/ RRoot
  \/ REnd
  \/ \E f \in Fields : NGet(f)
  \/ \E f \in Fields, v \in PVals : NAssign(f, v)
  \/ AThrow

SpecProduce == PInit /\ [][PNext]_vars

\* ordered Maps and Sets: a small one, and one of NumOrdKeys keys from
\* which an earlier produce call deleted NumGone keys, so that the next
\* deletes reach the compaction threshold
NumOrdKeys == 33
NumGone == 16

\* key ids 1, 2, 4, 5, ...: key 3 is left to be inserted
OrdKeys == [i \in 1..NumOrdKeys |-> IF i <= 2 THEN i ELSE i + 1]
Gone == [i \in 1..NumGone |-> i + 3]

BigMap == [i \in 1..NumOrdKeys |-> <<OrdKeys[i], 5>>]
BigSet == [i \in 1..NumOrdKeys |-> <<OrdKeys[i], 1>>]

\* the recipe  keys.forEach(k => draft.delete(k))  on the draft state d =
\* [st, map, ord] of an ordered Map or Set, over keys[lo..hi]
RECURSIVE DeleteKeys(_, _, _, _, _)
DeleteKeys(d, owner, keys, lo, hi) ==
  IF lo > hi THEN d
  ELSE IF lo = hi THEN
    draftDelete(d.st, d.map, TRUE, d.ord, owner, keys[lo])
  ELSE LET mid == (lo + hi) \div 2
           Right(l) == IF Computed(l)
                         THEN DeleteKeys(l, owner, keys, mid + 1, hi)
                         ELSE l
       IN Right(DeleteKeys(d, owner, keys, lo, mid))

\* the stores and handles after  produce(base, d => gone.forEach(k =>
\* d.delete(k)))  on the ordered value just built
Thinned(b, gone, owner) ==
  LET base == b.handle
      st0 == [hn |-> b.hn, vn |-> b.vn, tl |-> b.tl]
      Done(d) ==
        [hn |-> d.st.hn, vn |-> d.st.vn, tl |-> d.st.tl,
         handles |->
           << base,
              MapHandle(base.kind, TRUE, d.map, TRUE, d.ord,
                        SelectSeq(base.entries,
                                  LAMBDA e : \A i \in 1..Len(gone) :
                                               gone[i] # e[1]),
                        TRUE, 1, ManagedView(st0, SeedObjs, base),
                        [i \in 1..Len(gone) |->
                           Op("delete", gone[i], "had", 1)]) >>]
  IN IF Len(gone) = 0
       THEN [hn |-> b.hn, vn |-> b.vn, tl |-> b.tl, handles |-> <<base>>]
       ELSE Done(DeleteKeys([st |-> st0, map |-> base.map,
                             ord |-> base.ord],
                            owner, gone, 1, Len(gone)))

OrdSeeds ==
  { [seed |-> Seed("map", TRUE, TRUE, MapData), gone |-> <<>>],
    [seed |-> Seed("set", TRUE, TRUE, SetData), gone |-> <<>>],
    [seed |-> Seed("map", TRUE, TRUE, BigMap), gone |-> Gone],
    [seed |-> Seed("set", TRUE, TRUE, BigSet), gone |-> Gone] }

OInit ==
  /\ HIdle
  /\ \E s \in OrdSeeds :
       LET Start(t) ==
             /\ hnodes = t.hn
             /\ vnodes = t.vn
             /\ tails = t.tl
             /\ handles = t.handles
       IN Start(Thinned(Built(s.seed), s.gone, 3))
  /\ nextOwner = 3
  /\ objs = SeedObjs
  /\ nps = <<>>
  /\ draft = NoDraft
  /\ ret = NoRet
  /\ got = 0
  /\ opsLeft = MaxOrdOps
  /\ callsLeft = MaxOrdCalls

ONext ==
  \/ \E h \in Handles : MBegin(h)
  \/ \E k \in MKeys, v \in PVals : MSet(k, v)
  \/ \E k \in MKeys : SAdd(k)
  \/ \E k \in MKeys : MDelete(k)
  \/ MEnd

SpecOrd == OInit /\ [][ONext]_vars

-----------------------------------------------------------------------------
(* The public entry points: produce's dispatch on the kind of base, pura   *)
(* and unpura.  A handle is the identity of a value: two calls returned    *)
(* the same object iff they returned the same handle.                      *)

\* produce on a base that is no array, Map, Set or object, up to the call
\* recipe(base): the recipe holds base itself
NBegin(h) ==
  /\ ~draft.live
  /\ handles[h].kind = "plain"
  /\ callsLeft > 0
  /\ opsLeft > 0
  /\ draft' = recipeCall([live |-> TRUE, kind |-> "plain", base |-> h,
                          owner |-> 0, modified |-> FALSE, proxies |-> <<>>,
                          before |-> Observed(h), native |-> <<>>,
                          recipe |-> <<>>, calls |-> 0, given |-> 0], h)
  /\ nps' = <<>>
  /\ got' = handles[h].val
  /\ callsLeft' = callsLeft - 1
  /\ UNCHANGED <<hnodes, hvars, vnodes, tails, objs, handles, ret,
                 nextOwner, opsLeft>>

\* the recipe returns: return base
NEnd ==
  /\ draft.live /\ draft.kind = "plain"
  /\ ret' = Outcome("returned", "produce", draft.base, draft.base,
                    draft.before, draft.native, draft.recipe)
  /\ draft' = NoDraft
  /\ nps' = <<>>
  /\ got' = 0
  /\ UNCHANGED <<hnodes, hvars, vnodes, tails, objs, handles, nextOwner,
                 opsLeft, callsLeft>>

\* how a call of pura or unpura ended; prev: the call before it
Called(by, arg, result) ==
  [status |-> "returned", by |-> by, base |-> arg, result |-> result,
   before |-> <<>>, native |-> <<>>, recipe |-> <<>>, calls |-> 0,
   given |-> 0,
   prev |-> IF ret.status = "none" THEN <<>>
            ELSE <<ret.by, ret.base, ret.result>>]

IsFacade(h, obj) ==
  handles[h].kind = "rec" /\ handles[h].managed /\ handles[h].obj = obj

\* PROXY_CACHE.get(obj): the facade pura made of the plain record obj, 0
\* when it made none (pura enters every facade it makes)
ProxyCached(obj) ==
  IF \E h \in Handles : IsFacade(h, obj)
    THEN CHOOSE h \in Handles : IsFacade(h, obj)
    ELSE 0

\* pura that converts whatever it is given
puraCase_Rewraps(h) ==
  IF handles[h].kind = "plain" THEN "same" ELSE "wrap"

\* the branch pura takes on the value behind handle h: the *_STATE_ENV.has
\* and NESTED_PROXY_STATE tests, the PROXY_CACHE test of a record, the
\* fall-through of a value that is no object
puraCase(h) ==
  IF handles[h].kind = "plain" THEN "same"
  ELSE IF handles[h].managed THEN "same"
  ELSE IF handles[h].kind = "rec" /\ ProxyCached(handles[h].obj) # 0
    THEN "cached"
  ELSE "wrap"

\* pura(value) on the value behind handle h
Pura(h) ==
  /\ ~draft.live
  /\ opsLeft > 0
  /\ LET Keep(res) ==
           /\ ret' = Called("pura", h, res)
           /\ UNCHANGED <<hnodes, vnodes, tails, handles>>
         Wrap(hn, vn, tl, handle) ==
           /\ hnodes' = hn
           /\ vnodes' = vn
           /\ tails' = tl
           /\ handles' = Append(handles, handle)
           /\ ret' = Called("pura", h, Len(handles) + 1)
         Arr(r) == Wrap(hnodes, r.vn, r.tl,
                        ArrHandle(TRUE, r.vec, <<>>, h, <<>>, <<>>))
         Map(m) == Wrap(m.heap, vnodes, tails,
                        MapHandle(handles[h].kind, TRUE, m.map, FALSE,
                                  orderEmpty, handles[h].entries, TRUE, h,
                                  <<>>, <<>>))
     IN IF puraCase(h) = "same" THEN Keep(h)
        ELSE IF puraCase(h) = "cached"
          THEN Keep(ProxyCached(handles[h].obj))
        ELSE IF handles[h].kind = "arr"
          THEN Arr(vecFromArray(vnodes, tails, ArrContent(h)))
        ELSE IF handles[h].kind = "rec"
          THEN Wrap(hnodes, vnodes, tails,
                    RecHandle(TRUE, handles[h].obj, h, <<>>, <<>>))
        ELSE Map(hamtFromMap(hnodes, handles[h].entries, nextOwner + 1))
  /\ nextOwner' = nextOwner + 1
  /\ opsLeft' = opsLeft - 1
  /\ got' = 0
  /\ UNCHANGED <<hvars, objs, nps, draft, callsLeft>>

\* new Map(entries), new Set(keys): the loop  out.set(k, v)
RECURSIVE NewMap(_, _)
NewMap(es, n) == IF n = 0 THEN <<>> ELSE NSet(NewMap(es, n - 1), es[n][1], es[n][2])

\* unpura that reads every Map in trie order
unpuraMapEntries_TrieOrder(st, m) == hamtIter(st.hn, m.map)

\* the entries unpura reads out of the state m of a managed Map
unpuraMapEntries(st, m) ==
  IF m.ordered THEN
    IF m.ord.hasVal THEN orderEntryIter(st, m.ord)
    ELSE LET ks == orderIter(st, m.ord)
         IN [i \in 1..Len(ks) |-> <<ks[i], hamtGet(st.hn, m.map, ks[i])>>]
  ELSE hamtIter(st.hn, m.map)

\* the members unpura reads out of the state m of a managed Set
unpuraSetEntries(st, m) ==
  LET ks == iterKeys(st, m) IN [i \in 1..Len(ks) |-> <<ks[i], 1>>]

\* the handle of the plain record obj, 0 when the program holds none
PlainOf(obj) ==
  IF \E h \in Handles : handles[h].kind = "rec" /\ ~handles[h].managed
                        /\ handles[h].obj = obj
    THEN CHOOSE h \in Handles : handles[h].kind = "rec" /\ ~handles[h].managed
                                /\ handles[h].obj = obj
    ELSE 0

\* unpura(value) on the value behind handle h; a facade made by pura or
\* returned by produce was never written to
Unpura(h) ==
  /\ ~draft.live
  /\ opsLeft > 0
  /\ LET Keep(res) ==
           /\ ret' = Called("unpura", h, res)
           /\ handles' = handles
         Fresh(handle) ==
           /\ handles' = Append(handles, handle)
           /\ ret' = Called("unpura", h, Len(handles) + 1)
         Native(es) ==
           Fresh(MapHandle(handles[h].kind, FALSE, hamtEmpty, FALSE,
                           orderEmpty, NewMap(es, Len(es)), TRUE, h, <<>>,
                           <<>>))
         Plain(e) ==
           IF PlainOf(e.val) # 0 THEN Keep(PlainOf(e.val))
           ELSE Fresh(RecHandle(FALSE, e.val, h, <<>>, <<>>))
     IN IF handles[h].kind = "plain" \/ ~handles[h].managed THEN Keep(h)
        ELSE IF handles[h].kind = "arr"
          THEN Fresh(ArrHandle(FALSE, emptyVec,
                               vecToArray(vnodes, tails, handles[h].vec), h,
                               <<>>, <<>>))
        ELSE IF handles[h].kind = "map"
          THEN Native(unpuraMapEntries(Store, handles[h]))
        ELSE IF handles[h].kind = "set"
          THEN Native(unpuraSetEntries(Store, handles[h]))
        ELSE Plain(extractNestedValue(
                     objs, << NestedProxyState(ObjId(handles[h].obj), 0) >>,
                     1))
  /\ opsLeft' = opsLeft - 1
  /\ got' = 0
  /\ UNCHANGED <<hnodes, hvars, vnodes, tails, objs, nps, draft, nextOwner,
                 callsLeft>>

\* one value of every kind, native or made by puraOrderedMap /
\* puraOrderedSet: pura, unpura and produce calls on it and on what they
\* returned
MaxWrapOps == 3
MaxWrapCalls == 1

WrapSeeds ==
  { Seed("arr", FALSE, FALSE, Prims(2)), Seed("arr", FALSE, FALSE, Prims(33)),
    Seed("map", FALSE, FALSE, MapData), Seed("set", FALSE, FALSE, SetData),
    Seed("rec", FALSE, FALSE, ObjRef(2)), Seed("plain", FALSE, FALSE, 5),
    Seed("map", TRUE, TRUE, MapData), Seed("set", TRUE, TRUE, SetData) }

WInit == ProgInit(WrapSeeds, MaxWrapOps, MaxWrapCalls)

WNext ==
  \/ \E h \in Handles : Pura(h)
  \/ \E h \in Handles : Unpura(h)
  \/ \E h \in Handles : ABegin(h)
  \/ \E v \in PVals : APush(v)
  \/ AEnd
  \/ \E h \in Handles : MBegin(h)
  \/ \E k \in MKeys, v \in PVals : MSet(k, v)
  \/ \E k \in MKeys : SAdd(k)
  \/ MEnd
  \/ \E h \in Handles : RBegin(h)
  \/ \E f \in Fields, v \in PVals : NAssign(f, v)
  \/ REnd
  \/ \E h \in Handles : NBegin(h)
  \/ NEnd

SpecWrap == WInit /\ [][WNext]_vars

\* native values that pura wraps, and ordered Maps and Sets (a small one
\* that holds records, and the thinned one of NumOrdKeys keys): recipes of
\* reads and writes, then unpura of what came out
MaxExtOps == 2
MaxExtCalls == 1

ExtSeeds ==
  { [seed |-> Seed("arr", FALSE, FALSE, Prims(2)), gone |-> <<>>],
    [seed |-> Seed("arr", FALSE, FALSE, Prims(33)), gone |-> <<>>],
    [seed |-> Seed("map", FALSE, FALSE, MapData), gone |-> <<>>],
    [seed |-> Seed("set", FALSE, FALSE, SetData), gone |-> <<>>],
    [seed |-> Seed("map", TRUE, TRUE, MapData), gone |-> <<>>],
    [seed |-> Seed("set", TRUE, TRUE, SetData), gone |-> <<>>],
    [seed |-> Seed("map", TRUE, TRUE, BigMap), gone |-> Gone] }

XInit ==
  /\ HIdle
  /\ \E s \in ExtSeeds :
       LET Start(t) ==
             /\ hnodes = t.hn
             /\ vnodes = t.vn
             /\ tails = t.tl
             /\ handles = t.handles
       IN Start(Thinned(Built(s.seed), s.gone, 3))
  /\ nextOwner = 3
  /\ objs = SeedObjs
  /\ nps = <<>>
  /\ draft = NoDraft
  /\ ret = NoRet
  /\ got = 0
  /\ opsLeft = MaxExtOps
  /\ callsLeft = MaxExtCalls

XNext ==
  \/ \E h \in Handles : Pura(h)
  \/ \E h \in Handles : Unpura(h)
  \/ \E h \in Handles : MBegin(h)
  \/ \E k \in MKeys : MGet(k)
  \/ \E f \in Fields, v \in PVals : NAssign(f, v)
  \/ \E k \in MKeys, v \in PVals : MSet(k, v)
  \/ \E k \in MKeys : SAdd(k)
  \/ \E k \in MKeys : MDelete(k)
  \/ MClear
  \/ MEnd

SpecExtract == XInit /\ [][XNext]_vars

-----------------------------------------------------------------------------
(* A recipe that stored its draft: writes through the draft after produce  *)
(* has returned.                                                           *)

\* the produce call has returned and the program still holds its draft
HoldsDraft ==
  /\ ~draft.live
  /\ ret.status \in {"returned", "late"}
  /\ ret.by = "produce"

\* draft.set(k, v) of the Map draft of a produce call that has returned
MLateSet(k, v) ==
  /\ HoldsDraft /\ ret.kept.kind = "map"
  /\ opsLeft > 0
  /\ LET d == ret.kept
         Stored(r, o) ==
           /\ hnodes' = o.st.hn
           /\ vnodes' = o.st.vn
           /\ tails' = o.st.tl
           /\ ret' = [ret EXCEPT
                        !.status = "late",
                        !.kept = [d EXCEPT
                                    !.map = r.map, !.ord = o.ord,
                                    !.modified = TRUE,
                                    !.proxies = MapDelete(@, k)]]
         Ordered(had, r, st) ==
           Stored(r,
                  IF ~d.ordered THEN [st |-> st, ord |-> d.ord]
                  ELSE IF had
                    THEN orderUpdateValue(st, d.ord, d.owner, k, v)
                    ELSE orderAppendWithValue(st, d.ord, d.owner, k, v))
         Set(had, r) ==
           Ordered(had, r, [hn |-> r.heap, vn |-> vnodes, tl |-> tails])
     IN Set(hamtHas(hnodes, d.map, k), hamtSet(hnodes, d.map, d.owner, k, v))
  /\ opsLeft' = opsLeft - 1
  /\ UNCHANGED <<hvars, objs, nps, handles, draft, got, nextOwner,
                 callsLeft>>

\* draft.delete(k) of the Map or Set draft of a produce call that has
\* returned
MLateDelete(k) ==
  /\ HoldsDraft /\ ret.kept.kind \in {"map", "set"}
  /\ opsLeft > 0
  /\ LET Deleted(d) ==
           /\ hnodes' = d.st.hn
           /\ vnodes' = d.st.vn
           /\ tails' = d.st.tl
           /\ ret' = [ret EXCEPT
                        !.status = "late",
                        !.kept = [@ EXCEPT
                                    !.map = d.map, !.ord = d.ord,
                                    !.modified = IF d.removed THEN TRUE
                                                              ELSE @,
                                    !.proxies = IF d.removed
                                                  THEN MapDelete(@, k)
                                                  ELSE @]]
           /\ got' = Bool(d.removed)
     IN Deleted(draftDelete(Store, ret.kept.map, ret.kept.ordered,
                            ret.kept.ord, ret.kept.owner, k))
  /\ opsLeft' = opsLeft - 1
  /\ UNCHANGED <<hvars, objs, nps, handles, draft, nextOwner, callsLeft>>

\* Maps and Sets, native and managed: one produce call of set / add /
\* delete, then writes through its draft
MaxLateOps == 3
MaxLateCalls == 1

LateSeeds ==
  { Seed("map", m, FALSE, MapData) : m \in BOOLEAN }
  \cup { Seed("set", m, FALSE, SetData) : m \in BOOLEAN }

LInit == ProgInit(LateSeeds, MaxLateOps, MaxLateCalls)

LNext ==
  \/ \E h \in Handles : MBegin(h)
  \/ \E k \in MKeys, v \in PVals : MSet(k, v)
  \/ \E k \in MKeys : SAdd(k)
  \/ \E k \in MKeys : MDelete(k)
  \/ MEnd
  \/ \E k \in MKeys, v \in DVals : MLateSet(k, v)
  \/ \E k \in MKeys : MLateDelete(k)

SpecLate == LInit /\ [][LNext]_vars

-----------------------------------------------------------------------------
(* Children of a draft: the reads that hand a stored record to the recipe, *)
(* the writes that replace or remove the slot it came from, and what the   *)
(* recipe does with what it was handed.                                    *)

\* draft.at(index)
AAt(index) ==
  /\ draft.live /\ draft.kind = "arr"
  /\ opsLeft > 0
  /\ LET len == draft.vec.count
         idx == IF index < 0 THEN len + index ELSE index
     IN got' = IF idx < 0 \/ idx >= len THEN UNDEF
               ELSE vecGetCached(vnodes, tails, draft.vec, idx)
  /\ draft' = [draft EXCEPT !.recipe = Append(@, Op("at", index, "", 0))]
  /\ opsLeft' = opsLeft - 1
  /\ UNCHANGED <<hnodes, hvars, vnodes, tails, objs, nps, handles, ret,
                 nextOwner, callsLeft>>

\* the loop of fill: vecAssoc of value at each position from i up to e
RECURSIVE fillLoop(_, _, _, _, _)
fillLoop(st, owner, i, e, value) ==
  IF i >= e THEN st
  ELSE fillLoop(vecAssoc(st.vn, st.tl, st.vec, owner, i, value), owner,
                i + 1, e, value)

\* draft.fill(value), start and end undefined
AFill(value) ==
  /\ draft.live /\ draft.kind = "arr"
  /\ opsLeft > 0
  /\ LET len == draft.vec.count
         Filled(r) ==
           /\ vnodes' = r.vn
           /\ tails' = r.tl
           /\ draft' = [draft EXCEPT
                          !.vec = r.vec,
                          !.modified = IF 0 < len THEN TRUE ELSE @,
                          !.native = [i \in 1..Len(@) |-> value],
                          !.recipe = Append(@, Op("fill", 0, "", value))]
     IN Filled(fillLoop([vn |-> vnodes, tl |-> tails, vec |-> draft.vec,
                         err |-> FALSE],
                        draft.owner, 0, len, value))
  /\ opsLeft' = opsLeft - 1
  /\ UNCHANGED <<hnodes, hvars, objs, nps, handles, ret, got, nextOwner,
                 callsLeft>>

\* assignment to field f of the record obtained last, when what was
\* obtained is the record itself and no draft of it
OAssign(f, v) ==
  /\ draft.live
  /\ opsLeft > 0
  /\ IsObj(got) /\ got < 1000
  /\ objs' = [objs EXCEPT ![ObjId(got)].f[f] = v]
  /\ draft' = [draft EXCEPT
                 !.recipe = Append(@, Op("oset", ObjId(got), f, v))]
  /\ opsLeft' = opsLeft - 1
  /\ UNCHANGED <<hnodes, hvars, vnodes, tails, nps, handles, ret, got,
                 nextOwner, callsLeft>>

MaxChildOps == 3
MaxChildCalls == 1

ChildSeeds ==
  { Seed("arr", m, FALSE, <<ObjRef(1), 5, ObjRef(2)>>) : m \in BOOLEAN }
  \cup { Seed("map", m, FALSE, MapData) : m \in BOOLEAN }

CInit == ProgInit(ChildSeeds, MaxChildOps, MaxChildCalls)

CNext ==
  \/ \E h \in Handles : ABegin(h)
  \/ \E i \in 0..(DraftCount - 1) : AGet(i)
  \/ \E i \in (0 - 1)..DraftCount : AAt(i)
  \/ APop
  \/ \E i \in AIdx(DraftCount), v \in PVals : AAssign(i, v)
  \/ \E v \in PVals : AFill(v)
  \/ AEnd
  \/ \E h \in Handles : MBegin(h)
  \/ \E k \in MKeys : MGet(k)
  \/ \E k \in MKeys, v \in PVals : MSet(k, v)
  \/ \E k \in MKeys : MDelete(k)
  \/ MClear
  \/ MEnd
  \/ \E f \in Fields, v \in PVals : NAssign(f, v)
  \/ \E f \in Fields, v \in PVals : OAssign(f, v)

SpecChild == CInit /\ [][CNext]_vars

-----------------------------------------------------------------------------
(* Low-level OrderIndex session: orderAppend / orderAppendWithValue /      *)
(* orderDelete applied to an index built by orderFromBase or               *)
(* orderFromSetBase from which some keys were deleted.                     *)

\* key ids of the session: 3 is never in the index at the start
IdxKey(i) == IF i <= 2 THEN i ELSE i + 1
IdxKeys(n) == [i \in 1..n |-> IdxKey(i)]

\* what a reader of the index finds: next, holes, the slots of idxToKey and
\* of idxToVal, and the slot keyToIdx gives for every key id
IdxProbe == 1..40
IdxView(st, ord) ==
  [next |-> ord.next, holes |-> ord.holes, hasVal |-> ord.hasVal,
   keys |-> vecToArray(st.vn, st.tl, ord.idxToKey),
   vals |-> IF ord.hasVal THEN vecToArray(st.vn, st.tl, ord.idxToVal)
                          ELSE <<>>,
   index |-> [k \in IdxProbe |-> hamtGet(st.hn, ord.keyToIdx, k)]]

\* keys.forEach(k => ord = orderDelete(ord, owner, k)) over keys[lo..hi]
RECURSIVE OrderDeleteKeys(_, _, _, _, _)
OrderDeleteKeys(d, owner, keys, lo, hi) ==
  IF lo > hi THEN d
  ELSE IF lo = hi THEN orderDelete(d.st, d.ord, owner, keys[lo])
  ELSE LET mid == (lo + hi) \div 2
           Right(l) == IF Computed(l)
                         THEN OrderDeleteKeys(l, owner, keys, mid + 1, hi)
                         ELSE l
       IN Right(OrderDeleteKeys(d, owner, keys, lo, mid))

IdxNoOp == [op |-> "none", key |-> 0]

IdxDraft(ord, withVals, owner) ==
  [live |-> TRUE, kind |-> "index", ord |-> ord, withVals |-> withVals,
   owner |-> owner, last |-> IdxNoOp, calls |-> 0, given |-> 0]

IsIdx == draft.live /\ draft.kind = "index"

MaxIdxOps == 2

\* <<number of keys inserted, number of them deleted again>>: next at,
\* just above and well below the compaction threshold of 32, holes just
\* below, at and just above half of next
IdxShapes ==
  { <<3, 1>>, <<32, 20>>, <<33, 15>>, <<33, 16>>, <<34, 16>>, <<34, 17>>,
    <<35, 17>> }

IInit ==
  /\ HIdle
  /\ \E shape \in IdxShapes, withVals \in BOOLEAN :
       LET n == shape[1]
           Start(d) ==
             /\ hnodes = d.st.hn
             /\ vnodes = d.st.vn
             /\ tails = d.st.tl
             /\ draft = IdxDraft(d.ord, withVals, 3)
           Thin(b) ==
             Start(OrderDeleteKeys([st |-> b.st, ord |-> b.ord], 2,
                                   [i \in 1..shape[2] |-> IdxKey(i + 2)],
                                   1, shape[2]))
           st0 == [hn |-> <<>>, vn |-> EmptyVNodes, tl |-> EmptyTails]
       IN Thin(IF withVals
                 THEN orderFromBase(st0, [i \in 1..n |-> <<IdxKey(i), 5>>], 2)
                 ELSE orderFromSetBase(st0, IdxKeys(n), 2))
  /\ handles = <<>>
  /\ nextOwner = 3
  /\ objs = SeedObjs
  /\ nps = <<>>
  /\ ret = NoRet
  /\ got = 0
  /\ opsLeft = MaxIdxOps
  /\ callsLeft = 0

\* ord = orderDelete(ord, owner, key), for a key that is in the index or
\* not
IdxDelete(key) ==
  /\ IsIdx
  /\ opsLeft > 0
  /\ LET Deleted(r) ==
           /\ hnodes' = r.st.hn
           /\ vnodes' = r.st.vn
           /\ tails' = r.st.tl
           /\ draft' = [draft EXCEPT
                          !.ord = r.ord,
                          !.last = [op |-> "delete", key |-> key,
                                    pre |-> IdxView(Store, draft.ord)]]
     IN Deleted(orderDelete(Store, draft.ord, draft.owner, key))
  /\ opsLeft' = opsLeft - 1
  /\ UNCHANGED <<hvars, objs, nps, handles, ret, got, nextOwner, callsLeft>>

\* ord = orderAppendWithValue(ord, owner, key, value) of a Map draft's set,
\* ord = orderAppend(ord, owner, key) of a Set draft's add; both are called
\* for a key the collection does not hold
IdxAppend(key, value) ==
  /\ IsIdx
  /\ opsLeft > 0
  /\ hamtGet(hnodes, draft.ord.keyToIdx, key) = UNDEF
  /\ LET Appended(r) ==
           /\ hnodes' = r.st.hn
           /\ vnodes' = r.st.vn
           /\ tails' = r.st.tl
           /\ draft' = [draft EXCEPT
                          !.ord = r.ord,
                          !.last = [op |-> "append", key |-> key,
                                    pre |-> IdxView(Store, draft.ord)]]
     IN Appended(IF draft.withVals
                   THEN orderAppendWithValue(Store, draft.ord, draft.owner,
                                             key, value)
                   ELSE orderAppend(Store, draft.ord, draft.owner, key))
  /\ opsLeft' = opsLeft - 1
  /\ UNCHANGED <<hvars, objs, nps, handles, ret, got, nextOwner, callsLeft>>

\* keys the session deletes and appends: in the index, deleted from it at
\* the start, and never in it
IdxTargets == {1, 2, 3, 4, 5, 30}

INext ==
  \/ \E k \in IdxTargets : IdxDelete(k)
  \/ \E k \in IdxTargets, v \in PVals : IdxAppend(k, v)

SpecIndex == IInit /\ [][INext]_vars

-----------------------------------------------------------------------------
(* produce over a record that holds an array of records: the recipe works  *)
(* on nested drafts of the record, of the array and of its elements.       *)

\* the object a nested draft reads: copy || base
SourceOf(p) == objs[IF nps[p].copy # 0 THEN nps[p].copy ELSE nps[p].base]

InHand == IF draft.live /\ got >= 1000 THEN got - 1000 ELSE 0

\* the keys of the object behind the nested draft the recipe has in hand
HandKeys == IF InHand = 0 THEN {} ELSE DOMAIN SourceOf(InHand).f

\* Array.prototype.shift / pop / push / copyWithin(0, 1) on the array
\* elems; copyWithin returns the array it worked on
ArrayMethod(method, elems, v) ==
  IF method = "nshift"
    THEN [arr |-> IF elems = <<>> THEN <<>> ELSE Tail(elems),
          val |-> IF elems = <<>> THEN UNDEF ELSE Head(elems)]
  ELSE IF method = "npop"
    THEN [arr |-> IF elems = <<>> THEN <<>>
                  ELSE SubSeq(elems, 1, Len(elems) - 1),
          val |-> IF elems = <<>> THEN UNDEF ELSE elems[Len(elems)]]
  ELSE IF method = "ncopyWithin"
    THEN [arr |-> [i \in 1..Len(elems) |->
                     IF i < Len(elems) THEN elems[i + 1] ELSE elems[i]],
          val |-> UNDEF]
  ELSE [arr |-> Append(elems, v), val |-> Len(elems) + 1]

\* the methods the get trap of a nested draft wraps in getCopy
mutatingMethods == {"nshift", "npop", "npush"}

\* draft.shift(), draft.pop(), draft.push(v), draft.copyWithin(0, 1) on the
\* nested draft of an array: for a method of mutatingMethods the get trap
\* hands out  (...args) => getCopy()[prop](...args),  for any other
\* method  value.bind(copy || base)
NCall(method, v) ==
  /\ InHand # 0
  /\ opsLeft > 0
  /\ IsArr(SourceOf(InHand))
  /\ LET p == InHand
         Run(w, on, r) ==
           /\ objs' = [w.objs EXCEPT ![on].f = r.arr]
           /\ nps' = w.nps
           /\ got' = IF method = "ncopyWithin" THEN ObjRef(on) ELSE r.val
           /\ draft' = [draft EXCEPT
                          !.modified = w.modified,
                          !.recipe = Append(@, Op(method, p, "", v))]
         On(w, on) == Run(w, on, ArrayMethod(method, w.objs[on].f, v))
         Copied(w) == On(w, w.nps[p].copy)
     IN IF method \in mutatingMethods
          THEN Copied(getCopy(World, p))
          ELSE On(World, IF nps[p].copy # 0 THEN nps[p].copy
                                            ELSE nps[p].base)
  /\ opsLeft' = opsLeft - 1
  /\ UNCHANGED <<hnodes, hvars, vnodes, tails, handles, ret, nextOwner,
                 callsLeft>>

\* { a: [ {a: 1, b: 2}, {a: 3, b: 4} ], b: 1 }
TreeObjs ==
  << Rec([a |-> ObjRef(2), b |-> 1]), PlainArr(<<ObjRef(3), ObjRef(4)>>),
     Rec([a |-> 1, b |-> 2]), Rec([a |-> 3, b |-> 4]) >>

MaxTreeOps == 5
MaxTreeCalls == 1

TInit ==
  /\ HIdle
  /\ \E m \in BOOLEAN :
       LET Start(b) ==
             /\ hnodes = b.hn
             /\ vnodes = b.vn
             /\ tails = b.tl
             /\ handles = << b.handle >>
       IN Start(Built(Seed("rec", m, FALSE, ObjRef(1))))
  /\ nextOwner = 2
  /\ objs = TreeObjs
  /\ nps = <<>>
  /\ draft = NoDraft
  /\ ret = NoRet
  /\ got = 0
  /\ opsLeft = MaxTreeOps
  /\ callsLeft = MaxTreeCalls

TreeMethods == {"nshift", "npop", "npush", "ncopyWithin"}

TNext ==
  \/ \E h \in Handles : RBegin(h)
  \/ \E f \in HandKeys : NGet(f)
  \/ \E f \in HandKeys, v \in PVals : NAssign(f, v)
  \/ \E method \in TreeMethods, v \in PVals : NCall(method, v)
  \/ RRoot
  \/ REnd

SpecTree == TInit /\ [][TNext]_vars

-----------------------------------------------------------------------------
(* Indexed reads of arrays whose Vec shift, unshift or splice replaced.    *)

\* a[i] on a managed array outside any produce call: the get trap of its
\* proxy; the step is kept in ret with the value read
ADirectGet(h, i) ==
  /\ ~draft.live
  /\ opsLeft > 0
  /\ handles[h].kind = "arr" /\ handles[h].managed
  /\ i >= 0 /\ i < handles[h].vec.count
  /\ got' = vecGetCached(vnodes, tails, handles[h].vec, i)
  /\ ret' = Outcome("returned", "get", h, h, Observed(h), ArrContent(h),
                    << Op("get", i, "",
                          vecGetCached(vnodes, tails, handles[h].vec, i)) >>)
  /\ opsLeft' = opsLeft - 1
  /\ UNCHANGED <<hnodes, hvars, vnodes, tails, objs, nps, handles, draft,
                 nextOwner, callsLeft>>

MaxReadOps == 3
MaxReadCalls == 1

ReadSeeds ==
  { Seed("arr", TRUE, FALSE, Prims(70)), Seed("arr", FALSE, FALSE, Prims(70)),
    Seed("arr", TRUE, FALSE, Prims(33)) }

\* indices read: the ends of the leaves and of the array
ReadIdx(count) == {i \in {0, 31, 32, 63, count - 1} : i >= 0 /\ i < count}

GInit == ProgInit(ReadSeeds, MaxReadOps, MaxReadCalls)

GNext ==
  \/ \E h \in Handles : ABegin(h)
  \/ AShift
  \/ \E items \in SeqItems : AUnshift(items)
  \/ \E i \in ReadIdx(DraftCount) : AGet(i)
  \/ AEnd
  \/ \E h \in Handles : \E i \in ReadIdx(Len(ArrContent(h))) : ADirectGet(h, i)

SpecRead == GInit /\ [][GNext]_vars

-----------------------------------------------------------------------------
(* Repeated reads of the slots of a live array or Map draft, by index, by  *)
(* key and by iteration, between writes to other slots.                    *)

\* the loop of the draft's iterator over the values vecIter yields: an
\* object gets the nested draft cached for its index, or a new one
RECURSIVE iterLoop(_, _, _, _)
iterLoop(np, proxies, vals, i) ==
  IF i > Len(vals) THEN [nps |-> np, proxies |-> proxies]
  ELSE IF IsObj(vals[i]) /\ ~MapHas(proxies, i - 1)
    THEN iterLoop(Append(np, NestedProxyState(ObjId(vals[i]), 0)),
                  MapSet(proxies, i - 1, Len(np) + 1), vals, i + 1)
  ELSE iterLoop(np, proxies, vals, i + 1)

\* for (const x of draft) {}: the recipe keeps the value yielded last; the
\* step is logged with the index of that value
AIterate ==
  /\ draft.live /\ draft.kind = "arr"
  /\ opsLeft > 0
  /\ draft.vec.count > 0
  /\ LET vals == vecToArray(vnodes, tails, draft.vec)
         n == Len(vals)
         Yielded(r) ==
           /\ nps' = r.nps
           /\ got' = IF IsObj(vals[n]) THEN ProxyRef(MapGet(r.proxies, n - 1))
                                       ELSE vals[n]
           /\ draft' = [draft EXCEPT
                          !.proxies = r.proxies,
                          !.recipe = Append(@, Op("iterate", n - 1, "", 0))]
     IN Yielded(iterLoop(nps, draft.proxies, vals, 1))
  /\ opsLeft' = opsLeft - 1
  /\ UNCHANGED <<hnodes, hvars, vnodes, tails, objs, handles, ret,
                 nextOwner, callsLeft>>

MaxSlotOps == 3
MaxSlotCalls == 1

SlInit == ProgInit(ChildSeeds, MaxSlotOps, MaxSlotCalls)

SlNext ==
  \/ \E h \in Handles : ABegin(h)
  \/ \E i \in 0..(DraftCount - 1) : AGet(i)
  \/ AIterate
  \/ \E v \in PVals : APush(v)
  \/ \E i \in AIdx(DraftCount), v \in PVals : AAssign(i, v)
  \/ \E start \in {1, 2} : ASplice(start, <<1>>, <<>>)
  \/ AEnd
  \/ \E h \in Handles : MBegin(h)
  \/ \E k \in MKeys : MGet(k)
  \/ \E k \in MKeys, v \in PVals : MSet(k, v)
  \/ \E k \in MKeys : MDelete(k)
  \/ MEnd

SpecSlot == SlInit /\ [][SlNext]_vars

-----------------------------------------------------------------------------
(* produce(base, r2) called inside the recipe of produce(base, r1): the    *)
(* two drafts are live together and the recipes write to either of them.   *)
(* draft is the draft the next write goes to; its field outer holds the    *)
(* other one.                                                              *)

Nested == draft.live /\ "outer" \in DOMAIN draft

Alone(d) == [f \in DOMAIN d \ {"outer"} |-> d[f]]
Beside(d, other) ==
  [f \in DOMAIN d \cup {"outer"} |-> IF f = "outer" THEN Alone(other)
                                                  ELSE d[f]]

\* the draft of the call made last is the one in hand
InnerInHand == Nested /\ draft.owner > draft.outer.owner

\* the recipe turns to the other draft
ASwap ==
  /\ Nested
  /\ draft' = Beside(draft.outer, draft)
  /\ UNCHANGED <<hnodes, hvars, vnodes, tails, objs, nps, handles, ret, got,
                 nextOwner, opsLeft, callsLeft>>

\* produceArray(base, r2) up to the call of r2, inside the recipe of a
\* produce call on the same base
ABeginInside(h) ==
  /\ draft.live /\ draft.kind = "arr" /\ ~Nested
  /\ draft.base = h
  /\ callsLeft > 0
  /\ opsLeft > 0
  /\ LET Start(b) ==
           /\ vnodes' = b.vn
           /\ tails' = b.tl
           /\ draft' = Beside(recipeCall(ArrayDraft(h, [b.vec EXCEPT
                                                          !.tailOwner = 0],
                                                    nextOwner + 1), 0),
                              draft)
     IN Start(IF handles[h].managed
                THEN [vn |-> vnodes, tl |-> tails, vec |-> handles[h].vec]
                ELSE vecFromArray(vnodes, tails, handles[h].elems))
  /\ nextOwner' = nextOwner + 1
  /\ callsLeft' = callsLeft - 1
  /\ UNCHANGED <<hnodes, hvars, objs, nps, handles, ret, got, opsLeft>>

\* r2 returns: produceArray from line 1436 to its return; r1 goes on
AEndInside ==
  /\ InnerInHand /\ draft.kind = "arr"
  /\ LET Return(fin) ==
           /\ vnodes' = fin.vn
           /\ tails' = fin.tl
           /\ objs' = fin.objs
           /\ handles' = IF ~fin.err /\ fin.modified
                           THEN Append(handles,
                                       ArrHandle(TRUE, fin.vec, <<>>,
                                                 draft.base, draft.before,
                                                 draft.recipe))
                           ELSE handles
           /\ ret' = Outcome(IF fin.err THEN "threw" ELSE "returned",
                             IF fin.err THEN "IndexError" ELSE "produce",
                             draft.base,
                             IF fin.err THEN 0
                             ELSE IF ~fin.modified THEN draft.base
                             ELSE Len(handles) + 1,
                             draft.before, draft.native, draft.recipe)
     IN Return(FinalizeProxies([vn |-> vnodes, tl |-> tails, objs |-> objs,
                                vec |-> draft.vec,
                                modified |-> draft.modified,
                                err |-> FALSE],
                               draft.proxies, nps, draft.owner, 1))
  /\ draft' = draft.outer
  /\ UNCHANGED <<hnodes, hvars, nps, got, nextOwner, opsLeft, callsLeft>>

\* produceMap(base, r2) up to the call of r2, inside the recipe of a
\* produce call on the same base
MBeginInside(h) ==
  /\ draft.live /\ draft.kind = "map" /\ ~Nested
  /\ draft.base = h
  /\ callsLeft > 0
  /\ opsLeft > 0
  /\ LET Fresh(m) ==
           /\ hnodes' = m.heap
           /\ draft' = Beside(recipeCall(MapDraft(h, m.map, FALSE, orderEmpty,
                                                  nextOwner + 2), 0),
                              draft)
     IN IF handles[h].managed
          THEN /\ hnodes' = hnodes
               /\ draft' = Beside(recipeCall(MapDraft(h, handles[h].map,
                                                      handles[h].ordered,
                                                      handles[h].ord,
                                                      nextOwner + 2), 0),
                                  draft)
          ELSE Fresh(hamtFromMap(hnodes, handles[h].entries, nextOwner + 1))
  /\ nextOwner' = nextOwner + 2
  /\ callsLeft' = callsLeft - 1
  /\ UNCHANGED <<hvars, vnodes, tails, objs, nps, handles, ret, got,
                 opsLeft>>

\* r2 returns: produceMap after recipe(draft); r1 goes on
MEndInside ==
  /\ InnerInHand /\ draft.kind = "map"
  /\ LET Return(fin) ==
           /\ hnodes' = fin.hn
           /\ objs' = fin.objs
           /\ handles' = IF fin.modified
                           THEN Append(handles,
                                  MapHandle(draft.kind, TRUE, fin.map,
                                            draft.ordered, draft.ord,
                                            draft.native,
                                            handles[draft.base].twin
                                              /\ NoNestedWrite(draft.recipe),
                                            draft.base, draft.before,
                                            draft.recipe))
                           ELSE handles
           /\ ret' = Outcome("returned", "produce", draft.base,
                             IF ~fin.modified THEN draft.base
                                              ELSE Len(handles) + 1,
                             draft.before, draft.native, draft.recipe)
     IN Return(FinalizeValues([hn |-> hnodes, objs |-> objs,
                               map |-> draft.map,
                               modified |-> draft.modified],
                              draft.proxies, nps, draft.owner, 1))
  /\ draft' = draft.outer
  /\ UNCHANGED <<hvars, vnodes, tails, nps, got, nextOwner, opsLeft,
                 callsLeft>>

MaxNestOps == 3
MaxNestCalls == 2

\* key 2 has the hash of key 1: the recipes write a key of base and a key
\* that joins a key of base in a collision node
NestData == << <<1, 5>>, <<3, 6>> >>
NestKeys == {2, 3}

NestSeeds ==
  { Seed("arr", m, FALSE, Prims(2)) : m \in BOOLEAN }
  \cup { Seed("arr", TRUE, FALSE, Prims(33)) }
  \cup { Seed("map", m, FALSE, NestData) : m \in BOOLEAN }

NInit == ProgInit(NestSeeds, MaxNestOps, MaxNestCalls)

NNext ==
  \/ \E h \in Handles : ABegin(h)
  \/ \E h \in Handles : ABeginInside(h)
  \/ ASwap
  \/ \E v \in PVals : APush(v)
  \/ APop
  \/ \E i \in AIdx(DraftCount), v \in PVals : AAssign(i, v)
  \/ AEndInside
  \/ ~Nested /\ AEnd
  \/ \E h \in Handles : MBegin(h)
  \/ \E h \in Handles : MBeginInside(h)
  \/ \E k \in NestKeys, v \in PVals : MSet(k, v)
  \/ \E k \in NestKeys : MDelete(k)
  \/ MEndInside
  \/ ~Nested /\ MEnd

SpecNest == NInit /\ [][NNext]_vars

-----------------------------------------------------------------------------
(* Properties of produce over arrays of primitives *)

Primitive(v) == v >= 1 /\ v < 100

Returned == ret.status = "returned" /\ ret.by = "produce"

IsPush(recipe) == Len(recipe) = 1 /\ recipe[1].op = "push"

\* a push, a pop or an in-range index assignment of a primitive value
\* other than undefined
PlainStep(o) ==
  \/ o.op = "push" /\ Primitive(o.v)
  \/ o.op = "pop" /\ (o.i = 0 \/ Primitive(o.v))
  \/ o.op = "assign" /\ Primitive(o.v)

PlainRecipe(recipe) == \A i \in 1..Len(recipe) : PlainStep(recipe[i])

\* b was modified after c was made from it: by a push outside produce, by
\* a produce call that returned a new array, or by the writes of a draft
\* of b that is still live
ModifiedLater(b, c) ==
  \/ handles[b].direct > 0
  \/ \E d \in 1..Len(handles) : d > c /\ handles[d].from = b
  \/ draft.live /\ draft.base = b /\ draft.modified

\* C2: for a managed array a, b = produce(a, push x) and
\* c = produce(b, push y), a later modification of b (a further produce
\* with b as base, or a push on b outside produce) leaves a and c
\* unchanged: a holds its elements, c holds the elements b had when c was
\* produced followed by y.
C2_ChainUnchanged ==
  \A b, c \in 1..Len(handles) :
    LET a == handles[b].from
    IN (/\ a # 0 /\ handles[c].from = b
        /\ handles[a].managed
        /\ IsPush(handles[b].recipe) /\ IsPush(handles[c].recipe)
        /\ handles[a].direct = 0 /\ handles[c].direct = 0
        /\ ModifiedLater(b, c))
       => /\ Observed(a) = handles[b].before
          /\ Observed(c) = Append(handles[c].before,
                                  Deep(objs, handles[c].recipe[1].v))

\* a = pura([1, 2]), b and c pushed from it, then a push on b outside
\* produce: b now differs from what c was made from
C2_Witness ==
  /\ Len(handles) = 3
  /\ handles[1].managed /\ handles[2].from = 1 /\ handles[3].from = 2
  /\ IsPush(handles[2].recipe) /\ IsPush(handles[3].recipe)
  /\ handles[2].direct = 1
  /\ Observed(2) # handles[3].before
  /\ Len(ArrContent(1)) = 2 /\ Len(ArrContent(3)) = 4

\* C7: the array returned by produce for a recipe of pushes, pops and
\* in-range index assignments of primitive non-undefined values has the
\* length and elements of a native copy of base that received the same
\* operations in the same order.
C7_ArrayAsNative ==
  (Returned /\ PlainRecipe(ret.recipe)) =>
    ArrContent(ret.result) = ret.native

\* a produce call on a produced array whose pushes filled the 32-element
\* tail and moved it into the trie
C7_Witness ==
  /\ Returned /\ PlainRecipe(ret.recipe)
  /\ ret.result # ret.base
  /\ handles[ret.base].from # 0
  /\ Len(ret.before) <= 32
  /\ handles[ret.result].vec.treeCount = 32
  /\ \E i \in 1..Len(ret.recipe) : ret.recipe[i].op = "push"

-----------------------------------------------------------------------------
(* Properties of produce over every kind of base *)

ReadOnly(recipe) ==
  \A i \in 1..Len(recipe) : recipe[i].op \in {"get", "has", "nget"}

WritesOnly(recipe) ==
  \A i \in 1..Len(recipe) :
    recipe[i].op \in {"set", "add", "delete", "clear"}

Lookups(view) == [size |-> view.size, has |-> view.has, get |-> view.get]

\* C6: for a Map or Set that reached its state through produce calls of
\* set / add / delete / clear recipes, the value produce returns answers
\* size, has and get as the native Map or Set that received the same
\* calls, and each delete of the recipe returned true exactly when the key
\* was present.
C6_MapSetAsNative ==
  (/\ Returned
   /\ handles[ret.base].kind \in {"map", "set"}
   /\ handles[ret.base].twin
   /\ WritesOnly(ret.recipe))
  => /\ Lookups(Observed(ret.result)) = Lookups(NativeView(objs, ret.native))
     /\ \A i \in 1..Len(ret.recipe) :
          ret.recipe[i].op = "delete" =>
            ((ret.recipe[i].v = 1) <=> (ret.recipe[i].f = "had"))

\* the second produce call of a chain deleted a key that was present
C6_Witness ==
  /\ Returned /\ ret.result # ret.base
  /\ handles[ret.base].kind \in {"map", "set"}
  /\ handles[ret.base].twin /\ handles[ret.base].from # 0
  /\ WritesOnly(ret.recipe)
  /\ \E i \in 1..Len(ret.recipe) :
       ret.recipe[i].op = "delete" /\ ret.recipe[i].v = 1

\* the raw value held at slot s (index or key) of an array or Map
Slot(h, s) ==
  IF handles[h].kind = "arr" THEN At(ArrContent(h), s)
  ELSE IF handles[h].managed THEN hamtGet(hnodes, handles[h].map, s)
  ELSE NGetValue(handles[h].entries, s)

Slots(h) ==
  IF handles[h].kind = "arr" THEN 0..(Len(ArrContent(h)) - 1) ELSE MKeys

\* the recipe read slot s and assigned a field of the nested draft it got
NestedWrite(recipe) ==
  Len(recipe) = 2 /\ recipe[1].op = "get" /\ recipe[2].op = "nset"

\* C9: when the recipe reads the record at slot s of an array or Map draft
\* and assigns a field of it, the result holds at slot s a new record with
\* that field updated and the other fields kept, every other slot of the
\* result holds the identical object the base holds there, and the record
\* in the base is unmodified.
C9_NestedFieldWrite ==
  (/\ Returned
   /\ handles[ret.base].kind \in {"arr", "map"}
   /\ NestedWrite(ret.recipe))
  => LET s == ret.recipe[1].i
         old == Slot(ret.base, s)
         new == Slot(ret.result, s)
     IN /\ ret.result # ret.base
        /\ IsObj(new) /\ new # old
        /\ objs[ObjId(new)].f =
             [objs[ObjId(old)].f EXCEPT ![ret.recipe[2].f] = ret.recipe[2].v]
        /\ Slots(ret.result) = Slots(ret.base)
        /\ \A t \in Slots(ret.base) \ {s} :
             Slot(ret.result, t) = Slot(ret.base, t)
        /\ Observed(ret.base) = ret.before

\* field a of the record at key 2 of a managed Map was assigned
C9_Witness ==
  /\ Returned /\ NestedWrite(ret.recipe)
  /\ handles[ret.base].kind = "map" /\ handles[ret.base].managed
  /\ ret.recipe[1].i = 2 /\ ret.recipe[2].f = "a"
  /\ IsObj(Slot(ret.result, 2))
  /\ IsObj(Slot(ret.result, 1))

-----------------------------------------------------------------------------
(* Properties of ordered Maps and Sets *)

\* a recipe of set, add and delete calls on the draft itself
OrderedRecipe(recipe) ==
  \A i \in 1..Len(recipe) : recipe[i].op \in {"set", "add", "delete"}

\* the keys entries() yields when the order index carries the values
EntryKeys(h) ==
  LET it == orderEntryIter(Store, handles[h].ord)
  IN [i \in 1..Len(it) |-> it[i][1]]

\* C8: for an ordered Map or Set that reached its state through produce
\* calls of set / add / delete recipes, also when a delete compacted the
\* order index, iterating the value produce returns yields exactly the
\* keys present, each once, in the order a native Map or Set that received
\* the same calls yields them: first-insert order, an updated key in its
\* place, a key added again after its deletion at the end.
C8_OrderedIteration ==
  (/\ Returned
   /\ handles[ret.base].kind \in {"map", "set"}
   /\ handles[ret.base].ordered
   /\ handles[ret.base].twin
   /\ OrderedRecipe(ret.recipe))
  => /\ Observed(ret.result).keys = NKeys(ret.native)
     /\ handles[ret.result].ord.hasVal =>
          EntryKeys(ret.result) = NKeys(ret.native)

\* a delete of the recipe compacted the order index, and the recipe went
\* on to insert a key
C8_Witness ==
  /\ Returned /\ ret.result # ret.base
  /\ handles[ret.base].ordered /\ handles[ret.base].twin
  /\ OrderedRecipe(ret.recipe)
  /\ handles[ret.base].ord.holes > 0
  /\ handles[ret.base].ord.next > BRANCH_FACTOR
  /\ handles[ret.result].ord.holes = 0
  /\ handles[ret.result].ord.next < handles[ret.base].ord.next
  /\ ret.recipe[Len(ret.recipe)].op \in {"set", "add"}
  /\ ret.recipe[Len(ret.recipe)].i = 3

\* the step is hamtSet of a key bound to that very value, or hamtDelete of
\* a key that is absent
NoOpCall(op) ==
  \/ op.op = "set" /\ op.key \in op.preHas /\ op.pre[op.key] = op.value
  \/ op.op = "delete" /\ op.key \notin op.preHas

\* C17: hamtSet of a key that is bound to the identical value, and
\* hamtDelete of an absent key, return the map object they were given (same
\* root, same size), and no node is copied or changed.
C17_NoOpSameMap ==
  [][(hops' = hops + 1 /\ NoOpCall(hlast'))
       => /\ hlast'.same
          /\ hm' = hm
          /\ hnodes' = hnodes]_vars

\* such a hamtSet went down through a branch under an owner that could edit
\* nodes in place
C17_Witness ==
  /\ NoOpCall(hlast) /\ hlast.op = "set" /\ hlast.same
  /\ hown # 0
  /\ hm.root.kind = "node"
  /\ hnodes[hm.root.id].owner = hown

-----------------------------------------------------------------------------
(* Properties of the Vec operations *)

VNow == vecToArray(vnodes, tails, vs.vec)

\* C13: a pop that follows a push of v returns v and leaves a Vec of the
\* elements and the count found before the push, for every length around a
\* multiple of 32: pop(push(fromArray(xs), owner, v)) = (fromArray(xs), v).
C13_PushPop ==
  (vs.last.op = "pop" /\ vs.prev.op = "push")
  => /\ vs.last.val = vs.prev.v
     /\ vs.vec.count = Len(vs.prev.pre)
     /\ VNow = vs.prev.pre

\* push moved a full tail into the trie under a new root level and pop took
\* it back out
C13_Witness ==
  /\ vs.last.op = "pop" /\ vs.prev.op = "push"
  /\ vs.ops = 2
  /\ Len(vs.prev.pre) = 64
  /\ vs.vec.treeCount = 32
  /\ Len(tails[vs.vec.tail]) = 32

\* the last step of the recipe that is running
LastStep == draft.recipe[Len(draft.recipe)]
\* the last step of the recipe that returned
LastRet == ret.recipe[Len(ret.recipe)]

C16_Slice ==
  /\ vs.last.op = "slice"
       => /\ VNow = SubSeq(vs.last.pre, vs.last.i + 1, vs.last.v)
          /\ vs.vec.count = vs.last.v - vs.last.i
  /\ (draft.live /\ draft.kind = "arr" /\ Len(draft.recipe) > 0
      /\ LastStep.op = "shift")
       => vecToArray(vnodes, tails, draft.vec) = draft.native
  /\ (Returned /\ Len(ret.recipe) > 0 /\ LastRet.op = "shift")
       => ArrContent(ret.result) = ret.native

\* produce returned an array of 69 elements from a recipe that shifted one
\* of 70: the first leaf is shaved and the root relaxed
C16_Witness ==
  /\ Returned /\ Len(ret.recipe) = 1 /\ LastRet.op = "shift"
  /\ Len(ret.before) = 70
  /\ isRelaxed(vnodes[handles[ret.result].vec.root])
  /\ ArrContent(ret.result) = Tail(ArrContent(ret.base))

\* C14: for an index i inside the Vec, in the tail or in the trie,
\* get(assoc(vec, owner, i, v), i) = v, get(assoc(vec, owner, i, v), j) is
\* what get(vec, j) was for every other j, and the count is the same.
C14_AssocGet ==
  (vs.last.op = "assoc" /\ ~vs.last.err)
  => /\ vs.vec.count = Len(vs.last.pre)
     /\ \A j \in 0..(vs.vec.count - 1) :
          vecGet(vnodes, tails, vs.vec, j)
            = IF j = vs.last.i THEN vs.last.v ELSE vs.last.pre[j + 1]

\* the write went to the last leaf of a trie of two levels built by
\* fromArray, replacing another value
C14_Witness ==
  /\ vs.last.op = "assoc" /\ ~vs.last.err
  /\ vs.ops = 1
  /\ vs.vec.shift = BITS
  /\ vs.last.i = vs.vec.treeCount - 1
  /\ vs.last.pre[vs.last.i + 1] # vs.last.v
  /\ vecGet(vnodes, tails, vs.vec, vs.last.i) = vs.last.v

-----------------------------------------------------------------------------
(* Properties of writes that change nothing *)

\* what Deep shows of a value, the identity of the records left out
RECURSIVE Strip(_)
Strip(d) ==
  IF "f" \in DOMAIN d THEN [f |-> [x \in DOMAIN d.f |-> Strip(d.f[x])]]
                      ELSE d

\* the content of what a reader sees (o = Observed(h)) of a value of this
\* kind: elements, entries and fields by value
Content(kind, o) ==
  IF kind = "arr" THEN [i \in 1..Len(o) |-> Strip(o[i])]
  ELSE IF kind = "rec" THEN Strip(o)
  ELSE [size |-> o.size, has |-> o.has, keys |-> o.keys,
        get |-> [k \in MKeys |-> Strip(o.get[k])]]

\* C11: when the writes of the recipe leave the draft's content equal to
\* the base's, produce returns base itself.
C11_NoChangeIdentity ==
  (/\ Returned
   /\ Content(handles[ret.base].kind, Observed(ret.result))
        = Content(handles[ret.base].kind, ret.before))
  => ret.result = ret.base

\* the recipe is the single call draft.pop()
IsPop(recipe) == Len(recipe) = 1 /\ recipe[1].op = "pop"

\* C12: for a non-empty array base, whatever its last element is,
\* produce(base, d => d.pop()) returns an array one shorter that holds the
\* elements of base without the last one.
C12_PopShortens ==
  (Returned /\ IsPop(ret.recipe) /\ Len(ret.before) > 0)
  => /\ Len(ArrContent(ret.result)) = Len(ret.before) - 1
     /\ DeepSeq(objs, ArrContent(ret.result))
          = SubSeq(ret.before, 1, Len(ret.before) - 1)

-----------------------------------------------------------------------------
(* Properties of the public entry points *)

Kind(h) == handles[h].kind
Unmanaged(h) == ~handles[h].managed

PuraCall == ret.status = "returned" /\ ret.by = "pura"
UnpuraCall == ret.status = "returned" /\ ret.by = "unpura"

\* the call before the last one was pura
AfterPura == Len(ret.prev) = 3 /\ ret.prev[1] = "pura"

\* C18: whatever the kind of base, a produce call has called the recipe
\* once while the recipe runs and once when produce returns; for a base
\* that is no array, Map, Set or record the recipe received base itself and
\* produce returned base
C18_RecipeOnce ==
  /\ draft.live =>
       /\ draft.calls = 1
       /\ Kind(draft.base) = "plain" =>
            draft.given = draft.base /\ got = handles[draft.base].val
       /\ Kind(draft.base) # "plain" => draft.given = 0
  /\ Returned =>
       /\ ret.calls = 1
       /\ Kind(ret.base) = "plain" =>
            ret.given = ret.base /\ ret.result = ret.base

C18_Witness ==
  /\ Returned /\ Kind(ret.base) = "plain"
  /\ ret.calls = 1 /\ ret.given = ret.base /\ ret.result = ret.base

\* C19: two calls of pura on the same unmanaged array, Map, Set or record
\* return the same wrapper
C19_PuraCached ==
  (PuraCall /\ AfterPura /\ ret.prev[2] = ret.base /\ Unmanaged(ret.base)
     /\ Kind(ret.base) \in {"arr", "map", "set", "rec"})
    => ret.result = ret.prev[3]

-----------------------------------------------------------------------------
(* Properties of unpura *)

Range(xs) == {xs[i] : i \in 1..Len(xs)}

\* a and b are native values of one kind with the same content: the same
\* elements in the same order, or the same entries / members, each once
SameNative(a, b) ==
  /\ Unmanaged(a) /\ Unmanaged(b) /\ Kind(a) = Kind(b)
  /\ IF Kind(a) = "arr" THEN handles[a].elems = handles[b].elems
     ELSE /\ Range(handles[a].entries) = Range(handles[b].entries)
          /\ Len(handles[a].entries) = Len(handles[b].entries)

\* C21: unpura of the wrapper pura made of a native array, Map or Set is a
\* native value with the content of that array, Map or Set; unpura of an
\* ordered Map or Set, as made or as produce returned it, is a native value
\* whose keys are in insertion order: those of a native Map or Set that
\* received the same calls; its entries are those of that native value
\* when every recipe wrote through the draft itself
C21_Extract ==
  /\ (UnpuraCall /\ AfterPura /\ ret.prev[3] = ret.base
        /\ Unmanaged(ret.prev[2])
        /\ Kind(ret.base) \in {"arr", "map", "set"})
       => /\ ret.result # ret.prev[2]
          /\ SameNative(ret.result, ret.prev[2])
  /\ (UnpuraCall /\ Kind(ret.base) \in {"map", "set"}
        /\ handles[ret.base].managed /\ handles[ret.base].ordered)
       => /\ Unmanaged(ret.result)
          /\ NKeys(handles[ret.result].entries)
               = NKeys(handles[ret.base].entries)
          /\ handles[ret.base].twin =>
               handles[ret.result].entries = handles[ret.base].entries

\* unpura of what produce returned from an ordered Map of more than
\* BRANCH_FACTOR slots after a delete compacted the order index
C21_Witness ==
  /\ UnpuraCall /\ Kind(ret.base) = "map"
  /\ handles[ret.base].ordered /\ handles[ret.base].twin
  /\ handles[ret.base].from # 0
  /\ handles[handles[ret.base].from].ord.next > BRANCH_FACTOR
  /\ handles[ret.base].ord.holes = 0
  /\ handles[handles[ret.base].from].ord.holes > 0
  /\ handles[ret.base].recipe[1].op = "delete"
  /\ Len(handles[ret.result].entries) = handles[ret.base].map.size
  /\ handles[ret.result].entries = handles[ret.base].entries

\* C25: every entry <<k, v>> that entries / values / forEach of an ordered
\* Map yield, and that unpura reads out of it, has v = get(k), whatever
\* produce calls made the Map
C25_EntriesMatchGet ==
  \A h \in Handles :
    (Kind(h) = "map" /\ handles[h].managed /\ handles[h].ordered) =>
      LET es == unpuraMapEntries(Store, handles[h])
      IN \A i \in 1..Len(es) :
           es[i][2] = hamtGet(hnodes, handles[h].map, es[i][1])

-----------------------------------------------------------------------------
(* Properties of the shape of the HAMT *)

\* the leaves (of collision nodes too) under a child
RECURSIVE Under(_, _)
Under(heap, node) ==
  IF node.kind = "null" THEN {}
  ELSE IF node.kind = "leaf" THEN {node}
  ELSE IF node.kind = "collision" THEN Range(node.entries)
  ELSE UNION {Under(heap, heap[node.id].children[j]) :
                j \in 1..Len(heap[node.id].children)}

\* the branches under a child (itself included), each with its depth
RECURSIVE BranchesAt(_, _, _)
BranchesAt(heap, node, depth) ==
  IF node.kind # "node" THEN {}
  ELSE {[id |-> node.id, depth |-> depth]}
       \cup UNION {BranchesAt(heap, heap[node.id].children[j], depth + 1) :
                     j \in 1..Len(heap[node.id].children)}

\* the collision nodes under a child (itself included)
RECURSIVE CollisionsOf(_, _)
CollisionsOf(heap, node) ==
  IF node.kind = "collision" THEN {node}
  ELSE IF node.kind = "node" THEN
    UNION {CollisionsOf(heap, heap[node.id].children[j]) :
             j \in 1..Len(heap[node.id].children)}
  ELSE {}

\* C26: every collision node of the map holds at least two entries, with
\* pairwise distinct keys and one common hash (so a key of another hash is
\* never added to a collision node)
C26_CollisionShape ==
  \A c \in CollisionsOf(hnodes, hm.root) :
    /\ Len(c.entries) >= 2
    /\ \A i, j \in 1..Len(c.entries) :
         /\ c.entries[i].hash = c.entries[j].hash
         /\ i # j => c.entries[i].key # c.entries[j].key

\* C27: after a hamtDelete that removed a key, no branch of the map has
\* exactly one child that is a leaf or a collision node
C27_Collapsed ==
  (hlast.op = "delete" /\ ~hlast.same) =>
    \A b \in BranchesAt(hnodes, hm.root, 0) :
      ~(/\ Len(hnodes[b.id].children) = 1
        /\ hnodes[b.id].children[1].kind # "node")

IterNow == hamtIter(hnodes, hm)

\* C28: size is the number of keys present and the number of entries
\* hamtIter yields, hamtIter yields each present key once, and root is
\* null exactly when size is 0
C28_Size ==
  /\ hm.size = Cardinality(HPresent(hnodes, hm))
  /\ hm.size = Len(IterNow)
  /\ {IterNow[i][1] : i \in 1..Len(IterNow)} = HPresent(hnodes, hm)
  /\ \A i \in 1..Len(IterNow) :
       IterNow[i][2] = hamtGet(hnodes, hm, IterNow[i][1])
  /\ (hm.root.kind = "null") <=> (hm.size = 0)

\* a map of three keys, one full collision among them, after a set and a
\* delete that removed a key
C28_Witness ==
  /\ hm.size = 3 /\ Len(IterNow) = 3
  /\ CollisionsOf(hnodes, hm.root) # {}
  /\ hlast.op = "delete" /\ ~hlast.same
  /\ hprev.op = "set" /\ ~hprev.same

\* the j-th smallest bit of a bitmap
NthBit(bitmap, j) ==
  CHOOSE b \in bitmap : Cardinality({c \in bitmap : c < b}) = j - 1

\* C29: every branch has as many children as its bitmap has bits, and the
\* leaves and collision entries under its j-th child have, at the branch's
\* depth, the hash digit that is the j-th smallest bit of the bitmap
C29_BranchShape ==
  \A b \in BranchesAt(hnodes, hm.root, 0) :
    LET n == hnodes[b.id]
    IN /\ Len(n.children) = Cardinality(n.bitmap)
       /\ \A j \in 1..Len(n.children) :
            /\ n.children[j].kind # "null"
            /\ \A e \in Under(hnodes, n.children[j]) :
                 HashIdx(e.hash, BITS * b.depth) = NthBit(n.bitmap, j)

\* a delete left a trie of three levels with a branch of several children
C29_Witness ==
  /\ hlast.op = "delete" /\ ~hlast.same
  /\ \E b \in BranchesAt(hnodes, hm.root, 0) : b.depth = 2
  /\ hm.root.kind = "node"
  /\ Len(hnodes[hm.root.id].children) >= 2

\* the branches under node are all owned by another token than owner
ForeignTo(heap, node, owner) ==
  \A b \in BranchesAt(heap, node, 0) : heap[b.id].owner # owner

\* C30: a hamtSet or hamtDelete step under owner o leaves every branch
\* node as it was unless o is a token and the branch is owned by o; with
\* no owner no node that existed changes; and what is reachable from a
\* branch under which no branch is owned by o keeps its entries
C30_OwnerFrame ==
  [][hops' = hops + 1 /\ hlast'.op # "none" =>
       \A id \in 1..Len(hnodes) :
         /\ Len(hnodes') >= Len(hnodes)
         /\ hnodes'[id] # hnodes[id] =>
              (hown # 0 /\ hnodes[id].owner = hown)
         /\ (hown = 0 \/ ForeignTo(hnodes, HRef(id), hown)) =>
              IterChild(hnodes', HRef(id)) = IterChild(hnodes, HRef(id))]_vars

OwnedBy(owner) == {id \in 1..Len(hnodes) : hnodes[id].owner = owner}

\* two changes under one token: the first made the token's root, the
\* second changed it in place, and branches of the earlier owner remain
C30_Witness ==
  /\ hown # 0
  /\ hprev.op # "none" /\ ~hprev.same
  /\ hlast.op # "none" /\ ~hlast.same
  /\ hm.root.kind = "node" /\ hnodes[hm.root.id].owner = hown
  /\ Cardinality(OwnedBy(hown)) = 1
  /\ OwnedBy(1) # {}

-----------------------------------------------------------------------------
(* Properties of a draft after its produce call *)

\* C24: a write through the draft of a produce call that has returned
\* changes nothing a reader sees through base or through the value the
\* call returned
C24_LateWrites ==
  [][(ret'.status = "late" /\ opsLeft' = opsLeft - 1) =>
       /\ Observed(ret.base)' = Observed(ret.base)
       /\ Observed(ret.result)' = Observed(ret.result)]_vars


-----------------------------------------------------------------------------
(* Properties of the children of a draft *)

Stepped == draft.live /\ draft.recipe # <<>>

\* C22: after a direct write through an array or Map draft that replaced or
\* removed the value of a slot, the draft's cache holds no nested draft
\* for that slot, and finalisation neither writes into a slot that no
\* longer exists nor puts a nested draft's value over the later write
C22_NoStaleNested ==
  /\ Stepped /\ draft.kind = "arr" =>
       /\ LastStep.op = "assign" => ~MapHas(draft.proxies, LastStep.i)
       /\ LastStep.op = "pop" /\ LastStep.i > 0 =>
            ~MapHas(draft.proxies, LastStep.i - 1)
       /\ LastStep.op = "fill" => draft.proxies = <<>>
  /\ Stepped /\ draft.kind = "map" =>
       /\ LastStep.op \in {"set", "delete"} =>
            ~MapHas(draft.proxies, LastStep.i)
       /\ LastStep.op = "clear" => draft.proxies = <<>>
  /\ ret.status = "threw" => ret.by # "IndexError"
  /\ /\ Returned
     /\ handles[ret.base].kind = "arr"
     /\ ret.recipe # <<>>
     /\ LastRet.op = "fill"
     => ArrContent(ret.result) = ret.native

\* C23: every read through which the recipe of a live draft obtains a
\* stored record hands it a nested draft and never the record itself, and
\* what is reachable from base stays as it was before the call
C23_ChildIsDraft ==
  /\ Stepped /\ LastStep.op \in {"get", "at", "pop"} =>
       ~(IsObj(got) /\ got < 1000)
  /\ draft.live => Observed(draft.base) = draft.before


-----------------------------------------------------------------------------
(* Properties of the order index *)

\* the keys the HAMT map holds
KeysOf(st, map) ==
  LET es == hamtIter(st.hn, map) IN { es[i][1] : i \in 1..Len(es) }

\* the index ord shadows the HAMT map: its live slots hold the keys of map,
\* each once, keyToIdx names the slot of each, holes counts the DELETED
\* slots and next is the length of idxToKey (and of idxToVal)
Shadows(st, map, ord) ==
  LET n == ord.idxToKey.count
      live == LiveSlots(st, ord)
      keyAt(i) == vecGet(st.vn, st.tl, ord.idxToKey, i)
  IN /\ { keyAt(live[j]) : j \in 1..Len(live) } = KeysOf(st, map)
     /\ Len(live) = map.size
     /\ \A j \in 1..Len(live) :
          hamtGet(st.hn, ord.keyToIdx, keyAt(live[j])) = Num(live[j])
     /\ ord.holes = n - Len(live)
     /\ ord.next = n
     /\ ord.hasVal => ord.idxToVal.count = n

OrderedDraft == IsMapDraft /\ draft.ordered

\* C31: in every ordered Map / Set a program holds, and in the ordered
\* draft a recipe is writing, the order index shadows the HAMT
C31_OrderShadows ==
  /\ \A h \in Handles :
       handles[h].kind \in {"map", "set"} /\ handles[h].managed
         /\ handles[h].ordered
       => Shadows(Store, handles[h].map, handles[h].ord)
  /\ OrderedDraft => Shadows(Store, draft.map, draft.ord)

\* a recipe deleted a key and then appended one
C31_Witness ==
  /\ OrderedDraft
  /\ Len(draft.recipe) = 2
  /\ draft.recipe[1].op = "delete"
  /\ draft.recipe[2].op \in {"set", "add"}
  /\ draft.ord.holes > 0
  /\ draft.ord.next > handles[draft.base].ord.next


\* the view a reader has after slot idx of the view v was marked DELETED
\* for key
Marked(v, key) ==
  LET at == v.index[key]
  IN [v EXCEPT !.keys[at] = DELETED,
               !.vals = IF v.hasVal THEN [@ EXCEPT ![at] = DELETED] ELSE @,
               !.index[key] = UNDEF,
               !.holes = @ + 1]

\* the view of a fresh index of the live slots of v, renumbered from 0
Renumbered(v) ==
  LET live == SelectSeq([i \in 1..Len(v.keys) |-> i],
                        LAMBDA i : v.keys[i] # DELETED)
      keys == [j \in 1..Len(live) |-> v.keys[live[j]]]
  IN [next |-> Len(live), holes |-> 0, hasVal |-> v.hasVal,
      keys |-> keys,
      vals |-> IF v.hasVal THEN [j \in 1..Len(live) |-> v.vals[live[j]]]
                           ELSE <<>>,
      index |-> [k \in IdxProbe |->
                   IF \E j \in 1..Len(keys) : keys[j] = k
                     THEN CHOOSE j \in 1..Len(keys) : keys[j] = k
                     ELSE UNDEF]]

AboveThreshold(v) == 2 * v.holes > v.next /\ v.next > 32

IdxDeleted == IsIdx /\ draft.last.op = "delete"

\* C32: orderDelete of a key not in the index leaves the index as it was;
\* of a key in it, it marks the key's slot DELETED and counts one more
\* hole, and exactly when the holes then exceed half of next and next
\* exceeds 32 it returns the live slots renumbered from 0 with no holes
C32_DeleteCompacts ==
  IdxDeleted =>
    LET pre == draft.last.pre
        now == IdxView(Store, draft.ord)
        key == draft.last.key
    IN IF pre.index[key] = UNDEF THEN now = pre
       ELSE IF AboveThreshold(Marked(pre, key))
         THEN now = Renumbered(Marked(pre, key))
       ELSE now = Marked(pre, key)

\* a delete that compacted
C32_Witness ==
  /\ IdxDeleted
  /\ draft.last.pre.index[draft.last.key] # UNDEF
  /\ AboveThreshold(Marked(draft.last.pre, draft.last.key))
  /\ draft.ord.holes = 0
  /\ draft.ord.next < draft.last.pre.next

\* a delete at exactly half holes, which did not compact
C32_AtHalf ==
  /\ IdxDeleted
  /\ draft.last.pre.index[draft.last.key] # UNDEF
  /\ 2 * draft.ord.holes = draft.ord.next
  /\ draft.ord.next > 32


-----------------------------------------------------------------------------
(* Properties of produce over a record that holds an array *)

\* one step of a recipe on plain objects: heap holds the objects, hand what
\* the step before returned; a step on the draft the recipe was given
\* (nested draft 1) is a step on root
NativeStep(s, root, op) ==
  LET target == IF op.i = 1 THEN root ELSE s.hand
      o == ObjId(target)
      Method(r) == [heap |-> [s.heap EXCEPT ![o].f = r.arr], hand |-> r.val]
  IN IF ~IsObj(target) THEN s
     ELSE IF op.op = "nget"
       THEN [s EXCEPT !.hand = IF op.f \in DOMAIN s.heap[o].f
                                 THEN s.heap[o].f[op.f] ELSE UNDEF]
     ELSE IF op.op = "nset"
       THEN [heap |-> [s.heap EXCEPT ![o].f[op.f] = op.v], hand |-> target]
     ELSE Method(ArrayMethod(op.op, s.heap[o].f, op.v))

RECURSIVE NativeRun(_, _, _, _)
NativeRun(s, root, recipe, i) ==
  IF i > Len(recipe) THEN s
  ELSE NativeRun(NativeStep(s, root, recipe[i]), root, recipe, i + 1)

\* what the recipe leaves of a deep copy of the record at root
NativeResult(root, recipe) ==
  Strip(Deep(NativeRun([heap |-> TreeObjs, hand |-> root], root, recipe,
                       1).heap,
             root))

\* C33: the record produce returns is deep-equal to a deep copy of base
\* after the same field assignments and array methods in the same order
C33_RecordAsNative ==
  Returned /\ handles[ret.base].kind = "rec"
  => Strip(Observed(ret.result))
       = NativeResult(handles[ret.base].obj, ret.recipe)


-----------------------------------------------------------------------------
(* Properties of the indexed read *)

\* C34: the indexed read of an array draft and of a managed array returns
\* the element vecGet finds at that index of the Vec in the state
C34_IndexedRead ==
  /\ Stepped /\ draft.kind = "arr" /\ LastStep.op = "get"
     => got = vecGet(vnodes, tails, draft.vec, LastStep.i)
  /\ ret.status = "returned" /\ ret.by = "get"
     => ret.recipe[1].v
          = vecGet(vnodes, tails, handles[ret.base].vec, ret.recipe[1].i)


-----------------------------------------------------------------------------
(* Properties of nested drafts *)

NestedDrafts == IF draft.live THEN 1..Len(nps) ELSE {}

\* the steps of a recipe that write through a nested draft
NestedWrites == {"nset", "nshift", "npop", "npush", "ncopyWithin"}

\* the nested draft q is p or was handed out by a draft reached through p
RECURSIVE ReachedThrough(_, _)
ReachedThrough(p, q) ==
  IF q = p THEN TRUE
  ELSE IF nps[q].parent = 0 THEN FALSE
  ELSE ReachedThrough(p, nps[q].parent)

WrittenThrough(p) ==
  \E i \in 1..Len(draft.recipe) :
    /\ draft.recipe[i].op \in NestedWrites
    /\ ReachedThrough(p, draft.recipe[i].i)

\* C35: a nested draft is modified exactly when the recipe wrote through
\* it or through a draft reached through it
C35_ModifiedIffWritten ==
  \A p \in NestedDrafts : isProxyModified(nps, p) <=> WrittenThrough(p)

\* what extractNestedValue makes of the nested draft p
Extracted(p) == extractNestedValue(objs, nps, p)
ExtractedObj(p) == Extracted(p).objs[ObjId(Extracted(p).val)]

BaseObj(p) == objs[nps[p].base]

ModifiedRecordDrafts ==
  {p \in NestedDrafts : isProxyModified(nps, p) /\ ~IsArr(BaseObj(p))}

\* q is a draft the get trap of p made for the object in field f of base
DraftOfField(p, f, q) ==
  /\ nps[q].parent = p
  /\ BaseObj(p).f[f] = ObjRef(nps[q].base)

Assigned(p, f) ==
  \E i \in 1..Len(draft.recipe) :
    /\ draft.recipe[i].op = "nset"
    /\ draft.recipe[i].i = p
    /\ draft.recipe[i].f = f

\* a draft that is not observably modified is extracted as its base: the
\* same object, and no object is made
UnmodifiedIsBase ==
  \A p \in NestedDrafts :
    ~isProxyModified(nps, p)
    => Extracted(p).val = ObjRef(nps[p].base) /\ Extracted(p).objs = objs

\* C36: extraction of an unmodified draft returns base itself; extraction
\* of a modified record draft returns a record in which every field that
\* the recipe did not assign and whose draft was not modified holds the
\* object it holds in base
C36_ExtractShares ==
  /\ UnmodifiedIsBase
  /\ \A p \in ModifiedRecordDrafts, q \in NestedDrafts :
       \A f \in DOMAIN BaseObj(p).f :
         DraftOfField(p, f, q) /\ ~isProxyModified(nps, q) /\ ~Assigned(p, f)
         => ExtractedObj(p).f[f] = BaseObj(p).f[f]

\* C36 as stated: every field whose draft was not modified holds the
\* object it holds in base
C36_AsStated ==
  /\ UnmodifiedIsBase
  /\ \A p \in ModifiedRecordDrafts, q \in NestedDrafts :
       \A f \in DOMAIN BaseObj(p).f :
         DraftOfField(p, f, q) /\ ~isProxyModified(nps, q)
         => ExtractedObj(p).f[f] = BaseObj(p).f[f]

\* a record draft modified by the assignment of one field holds the
\* unmodified draft of another field, and extraction returns a new record
C36_Witness ==
  \E p \in ModifiedRecordDrafts, q \in NestedDrafts :
    \E f \in DOMAIN BaseObj(p).f :
      /\ DraftOfField(p, f, q) /\ ~isProxyModified(nps, q) /\ ~Assigned(p, f)
      /\ Extracted(p).val # ObjRef(nps[p].base)
      /\ ExtractedObj(p).f[f] = BaseObj(p).f[f]

-----------------------------------------------------------------------------
(* Properties of repeated reads *)

CachedSlots == {draft.proxies[j].k : j \in 1..Len(draft.proxies)}

\* the step o of a recipe writes slot i of a draft of count elements
WritesSlot(o, i, count) ==
  \/ o.op \in {"assign", "set", "delete"} /\ o.i = i
  \/ o.op = "push" /\ i >= count
  \/ o.op = "pop" /\ i = count - 1
  \/ o.op = "splice" /\ i >= spliceStart(count, o.i)
  \/ o.op \in {"shift", "unshift", "fill", "clear"}

\* C37: the nested draft a read of a slot returned is the one every later
\* read of that slot returns, by index, by key or by iteration, as long
\* as no step of the recipe writes the slot
C37_SameDraft ==
  [][(draft.live /\ draft'.live
        /\ Len(draft'.recipe) = Len(draft.recipe) + 1) =>
       \A i \in CachedSlots :
         ~WritesSlot(draft'.recipe[Len(draft'.recipe)], i, DraftCount)
         => /\ MapHas(draft'.proxies, i)
            /\ MapGet(draft'.proxies, i) = MapGet(draft.proxies, i)
            /\ /\ draft'.recipe[Len(draft'.recipe)].op \in {"get", "iterate"}
               /\ draft'.recipe[Len(draft'.recipe)].i = i
               => got' = ProxyRef(MapGet(draft.proxies, i))]_vars

-----------------------------------------------------------------------------
(* Properties of the copies of nested drafts *)

\* a nested draft that holds a copy was written through, every draft it
\* was reached through holds a copy, and the root draft is modified
CopiesReachRoot ==
  \A p \in NestedDrafts :
    nps[p].copy # 0 =>
      /\ WrittenThrough(p)
      /\ draft.modified
      /\ \A q \in NestedDrafts : ReachedThrough(q, p) => nps[q].copy # 0

\* a nested draft that holds a copy keeps that copy
CopiedOnce ==
  \A p \in NestedDrafts :
    nps[p].copy # 0 /\ draft'.live => nps'[p].copy = nps[p].copy

\* C38: a copy held by a nested draft means copies all the way up to the
\* root draft and a modified root; a nested draft copies at most once and
\* not before the first write through it
C38_CopyChain == [][CopiesReachRoot' /\ CopiedOnce]_vars

\* the draft of an element two levels below the root was written, none of
\* the drafts above it was written directly, and a draft beside it holds
\* no copy
C38_Witness ==
  \E p \in NestedDrafts, q \in NestedDrafts :
    /\ nps[p].copy # 0
    /\ nps[p].parent # 0 /\ nps[nps[p].parent].parent # 0
    /\ \A i \in 1..Len(draft.recipe) :
         draft.recipe[i].op \in NestedWrites => draft.recipe[i].i = p
    /\ nps[q].parent = nps[p].parent /\ nps[q].copy = 0

-----------------------------------------------------------------------------
(* Properties of produce inside a recipe *)

\* what a draft holds is what the native copy of base holds after the
\* writes of the draft's own recipe
DraftAsNative(d) ==
  IF d.kind = "arr" THEN vecToArray(vnodes, tails, d.vec) = d.native
  ELSE \A k \in MKeys : hamtGet(hnodes, d.map, k) = NGetValue(d.native, k)

\* the value a call returned holds what the native copy of base holds
\* after the writes of the call's recipe
ResultAsNative ==
  IF handles[ret.base].kind = "arr"
    THEN ArrContent(ret.result) = ret.native
    ELSE Lookups(Observed(ret.result)) = Lookups(NativeView(objs, ret.native))

OwnWritesOnly ==
  /\ draft.live => DraftAsNative(draft) /\ Observed(draft.base) = draft.before
  /\ Nested =>
       /\ draft.owner # draft.outer.owner
       /\ draft.owner # 0 /\ draft.outer.owner # 0
       /\ DraftAsNative(draft.outer)
  /\ Returned => ResultAsNative /\ Observed(ret.base) = ret.before

\* a native array after the pushes, pops and index assignments of recipe
RECURSIVE ReplayArr(_, _, _)
ReplayArr(xs, recipe, i) ==
  IF i > Len(recipe) THEN xs
  ELSE LET o == recipe[i]
       IN ReplayArr(IF o.op = "push" THEN Append(xs, o.v)
                    ELSE IF o.op = "pop"
                      THEN (IF xs = <<>> THEN xs
                            ELSE SubSeq(xs, 1, Len(xs) - 1))
                    ELSE IF o.op = "assign" THEN [xs EXCEPT ![o.i + 1] = o.v]
                    ELSE xs,
                    recipe, i + 1)

\* the value behind handle h, which a produce call returned, holds what a
\* native copy of the call's base holds after the writes of its recipe
KeepsOwnWrites(h) ==
  IF handles[h].kind = "arr"
    THEN ArrContent(h)
           = ReplayArr([j \in 1..Len(handles[h].before) |->
                          handles[h].before[j].v],
                       handles[h].recipe, 1)
    ELSE Lookups(Observed(h))
           = Lookups(NativeView(objs, handles[h].entries))

\* C39: with produce(base, r2) running inside the recipe of
\* produce(base, r1), the two calls hold different owner tokens, each
\* draft and each result holds exactly the writes of its own recipe, base
\* holds what it held before the calls, and a value returned earlier
\* still holds the writes of its own recipe
C39_NestedCalls ==
  /\ OwnWritesOnly
  /\ Nested => Observed(draft.outer.base) = draft.outer.before
  /\ \A h \in Handles : handles[h].from # 0 => KeepsOwnWrites(h)

\* both calls wrote, the inner call returned a new value, and the outer
\* recipe wrote again after that
C39_Witness ==
  /\ draft.live /\ ~Nested
  /\ Returned /\ ret.base = draft.base /\ ret.result # ret.base
  /\ Len(draft.recipe) >= 2 /\ Len(ret.recipe) >= 1
  /\ handles[draft.base].managed

-----------------------------------------------------------------------------
(* Properties of the descent of hamtSet and hamtDelete *)

\* the call of mergeLeaves that hamtInsert makes for hash below node at
\* shift: hamtInsert follows the digits of hash through the branches and
\* calls mergeLeaves when it meets a leaf of another hash
RECURSIVE MergeCall(_, _, _, _)
MergeCall(heap, node, hash, shift) ==
  IF node.kind = "leaf" THEN
    [called |-> node.hash # hash, leaf |-> node, shift |-> shift]
  ELSE IF node.kind = "node" THEN
    LET n == heap[node.id]
        idx == HashIdx(hash, shift)
    IN IF idx \in n.bitmap
         THEN MergeCall(heap, n.children[PackedIdx(n.bitmap, idx) + 1],
                        hash, shift + BITS)
         ELSE [called |-> FALSE, leaf |-> NullChild, shift |-> shift]
  ELSE [called |-> FALSE, leaf |-> NullChild, shift |-> shift]

\* the shifts of the 5-bit digits below shift
ShiftsBelow(shift) == {s \in 0..(shift - 1) : s % BITS = 0}

\* the calls of mergeLeaves stop where the digits of the two hashes part
PartsAt(h1, h2) ==
  CHOOSE s \in ShiftsBelow(35) :
    /\ HashIdx(h1, s) # HashIdx(h2, s)
    /\ \A t \in ShiftsBelow(s) : HashIdx(h1, t) = HashIdx(h2, t)

\* C40: whichever key hamtSet is called with on the map, a call of
\* mergeLeaves gets two leaves of different hashes that agree on every
\* digit below the shift it is called at, at a shift of at most 30; and
\* every branch of the map lies at a shift of at most 30, so that the
\* descents of hamtSet and hamtDelete end after at most 7 branches
C40_Descent ==
  /\ \A k \in DeepKeys :
       LET c == MergeCall(hnodes, hm.root, hashKey(k), 0)
       IN c.called =>
            /\ c.leaf.hash # hashKey(k)
            /\ \A s \in ShiftsBelow(c.shift) :
                 HashIdx(c.leaf.hash, s) = HashIdx(hashKey(k), s)
            /\ c.shift <= 30
            /\ PartsAt(c.leaf.hash, hashKey(k)) >= c.shift
  /\ \A b \in BranchesAt(hnodes, hm.root, 0) : BITS * b.depth <= 30

\* after a hamtDelete that removed a key, the map holds a branch at shift
\* 25 and hamtSet of some key would call mergeLeaves at shift 30
C40_Witness ==
  /\ hlast.op = "delete" /\ ~hlast.same
  /\ \E b \in BranchesAt(hnodes, hm.root, 0) : BITS * b.depth = 25
  /\ \E k \in DeepKeys :
       /\ MergeCall(hnodes, hm.root, hashKey(k), 0).called
       /\ MergeCall(hnodes, hm.root, hashKey(k), 0).shift = 30

=============================================================================
